---- MODULE Spec2Model ----
(***************************************************************************)
(* Model of the package metadata stores of apm (x1z53/apm):                *)
(*   - apt.PackageDBService      (table host_image_packages)               *)
(*   - service.DistroDBService   (table distrobox_packages)                *)
(* and of the query engine both services build on.                         *)
(*                                                                         *)
(* TEXT values are sequences of one-character strings, so that the SQL     *)
(* operators the code relies on (LIKE, ||) and the Go conversions          *)
(* (strings.Join, strings.Split) are computed, not assumed.                *)
(* The database is SQLite semantics behind database/sql: a statement run   *)
(* on the *sql.DB handle auto-commits, a statement run on a *sql.Tx is     *)
(* visible to other connections only after Commit.                         *)
(***************************************************************************)
EXTENDS Integers, Sequences, FiniteSets, TLC

(***************************************************************************)
(* Strings                                                                 *)
(***************************************************************************)

\* The reserved separator of the depends/provides columns.
Sep == ","

Range(s) == {s[i] : i \in 1..Len(s)}

Min(a, b) == IF a < b THEN a ELSE b

Max(a, b) == IF a > b THEN a ELSE b

\* Byte order of the characters the model uses (SQLite BINARY collation).
CharRank(c) ==
    CASE c = "%" -> 37
      [] c = "," -> 44
      [] c = "0" -> 48
      [] c = "1" -> 49
      [] c = "2" -> 50
      [] c = "_" -> 95
      [] c = "a" -> 97
      [] c = "b" -> 98
      [] c = "c" -> 99
      [] c = "x" -> 120
      [] OTHER -> 127

\* strings.Join(elems, sep)
RECURSIVE Join(_, _)
Join(elems, sep) ==
    IF elems = <<>> THEN <<>>
    ELSE IF Len(elems) = 1 THEN Head(elems)
    ELSE Head(elems) \o <<sep>> \o Join(Tail(elems), sep)

\* strings.Split(s, sep) for a one-character separator: always at least one
\* element; Split("", ",") is [""].
RECURSIVE SplitFrom(_, _, _)
SplitFrom(s, sep, cur) ==
    IF s = <<>> THEN <<cur>>
    ELSE IF Head(s) = sep THEN <<cur>> \o SplitFrom(Tail(s), sep, <<>>)
    ELSE SplitFrom(Tail(s), sep, Append(cur, Head(s)))

Split(s, sep) == SplitFrom(s, sep, <<>>)

\* SQL:  s LIKE pat   ('%' matches any run of characters, '_' exactly one
\* character; no ESCAPE clause is given by the code).  The alphabet of the
\* model has no upper-case letters, so case folding never comes into play.
RECURSIVE Like(_, _)
Like(s, pat) ==
    IF pat = <<>> THEN s = <<>>
    ELSE IF Head(pat) = "%"
         THEN Like(s, Tail(pat)) \/ (s # <<>> /\ Like(Tail(s), pat))
         ELSE /\ s # <<>>
              /\ (Head(pat) = "_" \/ Head(pat) = Head(s))
              /\ Like(Tail(s), Tail(pat))

\* Text comparison s < t (memcmp order).
RECURSIVE StrLess(_, _)
StrLess(s, t) ==
    IF t = <<>> THEN FALSE
    ELSE IF s = <<>> THEN TRUE
    ELSE IF Head(s) = Head(t) THEN StrLess(Tail(s), Tail(t))
    ELSE CharRank(Head(s)) < CharRank(Head(t))

(***************************************************************************)
(* Rows and Go values                                                      *)
(*                                                                         *)
(* A host row keeps the columns name, version, versionInstalled, depends,  *)
(* provides and installed.  The columns section, installed_size,           *)
(* maintainer, size, filename, description and changelog are written and   *)
(* read exactly like version (copied on save, never touched afterwards)    *)
(* and are left out.                                                       *)
(***************************************************************************)

\* One value tuple of the INSERT of SavePackagesToDB (apt.Package -> row).
PackageToRow(pkg) ==
    [name             |-> pkg.Name,
     version          |-> pkg.Version,
     versionInstalled |-> pkg.VersionInstalled,
     depends          |-> Join(pkg.Depends, Sep),
     provides         |-> Join(pkg.Provides, Sep),
     installed        |-> IF pkg.Installed THEN 1 ELSE 0]

RowsOf(packages) == [i \in 1..Len(packages) |-> PackageToRow(packages[i])]

\* Mutant: the stored strings are split whether empty or not.
RowToPackageUnguarded(row) ==
    [Name             |-> row.name,
     Version          |-> row.version,
     VersionInstalled |-> row.versionInstalled,
     Depends          |-> Split(row.depends, Sep),
     Provides         |-> Split(row.provides, Sep),
     Installed        |-> row.installed # 0]

\* rows.Scan plus the conversions after it (row -> apt.Package).
RowToPackage(row) ==
    [Name             |-> row.name,
     Version          |-> row.version,
     VersionInstalled |-> row.versionInstalled,
     Depends          |-> IF row.depends # <<>> THEN Split(row.depends, Sep) ELSE <<>>,
     Provides         |-> IF row.provides # <<>> THEN Split(row.provides, Sep) ELSE <<>>,
     Installed        |-> row.installed # 0]

PackagesOf(rows) == [i \in 1..Len(rows) |-> RowToPackage(rows[i])]

\* distrobox row -> service.PackageInfo (version, description and manager
\* behave alike; version stands for the three).
RowToPackageInfo(row) ==
    [Name      |-> row.name,
     Version   |-> row.version,
     Container |-> row.container,
     Installed |-> row.installed # 0,
     Exporting |-> row.exporting # 0]

PackageInfosOf(rows) == [i \in 1..Len(rows) |-> RowToPackageInfo(rows[i])]

(***************************************************************************)
(* Query engine                                                            *)
(***************************************************************************)

\* apt: allowedSortFields / allowedFilterFields
aptAllowedSortFields ==
    {"name", "section", "installedSize", "maintainer", "version",
     "versionInstalled", "depends", "provides", "size", "filename",
     "description", "changelog", "installed"}

aptAllowedFilterFields ==
    {"name", "section", "installedSize", "maintainer", "version",
     "versionInstalled", "depends", "provides", "size", "filename",
     "description", "changelog", "installed"}

\* distrobox: allowedSortFields / allowedFilterFields
distroAllowedSortFields ==
    {"name", "version", "description", "container", "installed", "exporting",
     "manager"}

distroAllowedFilterFields ==
    {"name", "version", "description", "container", "installed", "exporting",
     "manager"}

\* Mutant: the allow-list check lets every field through.
isAllowedFieldAny(field, allowed) == TRUE

isAllowedField(field, allowed) == field \in allowed

\* The columns of the two tables that the model keeps (CREATE TABLE).  The
\* host table names its size column installed_size, not installedSize.
hostColumns ==
    {"name", "version", "versionInstalled", "depends", "provides", "installed"}

distroColumns == {"container", "name", "version", "installed", "exporting"}

\* helper.ParseBool on a string value: <<value, ok>>.
ParseBool(value) ==
    IF value = <<"1">> THEN <<TRUE, TRUE>>
    ELSE IF value = <<"0">> THEN <<FALSE, TRUE>>
    ELSE <<FALSE, FALSE>>

\* A WHERE condition: column = arg, column LIKE arg, or
\* ',' || column || ',' LIKE arg.
Cond(kind, field, arg) == [kind |-> kind, field |-> field, arg |-> arg]

\* Mutant: an unparseable value filters as false.
boolFilterAsFalse(field, value, conds) ==
    LET pb == ParseBool(value)
    IN  Append(conds, Cond("eq", field, IF pb[2] /\ pb[1] THEN 1 ELSE 0))

\* The branch of a boolean field (installed; exporting): an unparseable
\* value adds no condition.
boolFilter(field, value, conds) ==
    LET pb == ParseBool(value)
    IN  IF ~pb[2] THEN conds
        ELSE Append(conds, Cond("eq", field, IF pb[1] THEN 1 ELSE 0))

\* The branch of the multi-valued fields depends and provides:
\*   ',' || field || ',' LIKE '%,' + value + ',%'
listFilter(field, value, conds) ==
    Append(conds, Cond("wraplike", field, <<"%", Sep>> \o value \o <<Sep, "%">>))

\* The branch of every other field, for a string value:
\*   field LIKE '%' + value + '%'
textFilter(field, value, conds) ==
    Append(conds, Cond("like", field, <<"%">> \o value \o <<"%">>))

\* The loop `for field, value := range filters` of QueryHostImagePackages
\* and CountHostImagePackages, for the keys in the iteration order `ord`;
\* conds are the conditions appended so far.
RECURSIVE hostFilterLoop(_, _, _)
hostFilterLoop(filters, ord, conds) ==
    IF ord = <<>> THEN [err |-> "none", field |-> "", conds |-> conds]
    ELSE LET field == Head(ord)
             value == filters[field]
         IN  IF ~isAllowedField(field, aptAllowedFilterFields)
             THEN [err |-> "filter", field |-> field, conds |-> <<>>]
             ELSE IF field = "installed"
             THEN hostFilterLoop(filters, Tail(ord), boolFilter(field, value, conds))
             ELSE IF field = "provides" \/ field = "depends"
             THEN hostFilterLoop(filters, Tail(ord), listFilter(field, value, conds))
             ELSE hostFilterLoop(filters, Tail(ord), textFilter(field, value, conds))

\* The same loop of DistroDBService.QueryPackages and CountTotalPackages.
RECURSIVE distroFilterLoop(_, _, _)
distroFilterLoop(filters, ord, conds) ==
    IF ord = <<>> THEN [err |-> "none", field |-> "", conds |-> conds]
    ELSE LET field == Head(ord)
             value == filters[field]
         IN  IF ~isAllowedField(field, distroAllowedFilterFields)
             THEN [err |-> "filter", field |-> field, conds |-> <<>>]
             ELSE IF field = "installed" \/ field = "exporting"
             THEN distroFilterLoop(filters, Tail(ord), boolFilter(field, value, conds))
             ELSE distroFilterLoop(filters, Tail(ord), textFilter(field, value, conds))

\* strings.ToUpper on the sort orders the model passes, then the default.
upperOrder(sortOrder) ==
    LET up == CASE sortOrder = "asc" -> "ASC"
                [] sortOrder = "desc" -> "DESC"
                [] OTHER -> sortOrder
    IN  IF up # "ASC" /\ up # "DESC" THEN "ASC" ELSE up

\* Mutant: a limit of 0 is passed on as LIMIT 0.
limitClauseFromZero(limit, offset) ==
    [hasLimit |-> limit >= 0, hasOffset |-> limit >= 0 /\ offset > 0]

\* `if limit > 0 { LIMIT ?; if offset > 0 { OFFSET ? } }`
limitClause(limit, offset) ==
    [hasLimit |-> limit > 0, hasOffset |-> limit > 0 /\ offset > 0]

\* ---- what the database does with the statement ----

EvalCond(row, c) ==
    CASE c.kind = "eq"       -> row[c.field] = c.arg
      [] c.kind = "like"     -> Like(row[c.field], c.arg)
      [] c.kind = "wraplike" -> Like(<<Sep>> \o row[c.field] \o <<Sep>>, c.arg)

Where(table, conds) ==
    LET Keep(row) == \A i \in 1..Len(conds) : EvalCond(row, conds[i])
    IN  SelectSeq(table, Keep)

IntColumns == {"installed", "exporting"}

KeyLess(field, r1, r2) ==
    IF field \in IntColumns THEN r1[field] < r2[field]
    ELSE StrLess(r1[field], r2[field])

\* ORDER BY field dir; rows with equal keys keep their table order.
RECURSIVE InsertSorted(_, _, _, _)
InsertSorted(sorted, r, field, dir) ==
    IF sorted = <<>> THEN <<r>>
    ELSE LET h == Head(sorted)
             before == IF dir = "DESC" THEN KeyLess(field, h, r)
                       ELSE KeyLess(field, r, h)
         IN  IF before THEN <<r>> \o sorted
             ELSE <<h>> \o InsertSorted(Tail(sorted), r, field, dir)

RECURSIVE OrderBy(_, _, _)
OrderBy(rows, field, dir) ==
    IF rows = <<>> THEN <<>>
    ELSE InsertSorted(OrderBy(SubSeq(rows, 1, Len(rows) - 1), field, dir),
                      rows[Len(rows)], field, dir)

\* LIMIT n OFFSET m (a negative LIMIT is no limit, a negative OFFSET is 0).
Page(rows, q) ==
    IF ~q.hasLimit \/ q.limit < 0 THEN rows
    ELSE LET off == IF q.hasOffset THEN Max(q.offset, 0) ELSE 0
         IN  SubSeq(rows, off + 1, Min(Len(rows), off + q.limit))

\* SELECT ... FROM table [WHERE ...] [ORDER BY ...] [LIMIT ... [OFFSET ...]]:
\* a column the table does not have is an error of the statement.
ExecSelect(table, q, columns) ==
    IF \/ \E i \in 1..Len(q.conds) : q.conds[i].field \notin columns
       \/ q.orderBy # "" /\ q.orderBy \notin columns
    THEN [err |-> "sql", rows |-> <<>>]
    ELSE LET matched == Where(table, q.conds)
             ordered == IF q.orderBy = "" THEN matched
                        ELSE OrderBy(matched, q.orderBy, q.dir)
         IN  [err |-> "none", rows |-> Page(ordered, q)]

\* ---- the four query operations ----
\* Each returns [err, field, executed, rows, count]: err is "none", "filter"
\* or "sort" (the invalid-field errors, field names the rejected field) or
\* "sql" (the statement failed); executed tells whether a statement reached
\* the database; rows are the Go values a query returns and count the number
\* a count returns (for a query, the number of rows returned).

NoFilters == [f \in {} |-> <<>>]

Rejected(err, field) ==
    [err |-> err, field |-> field, executed |-> FALSE, rows |-> <<>>,
     count |-> 0]

QueryHostImagePackages(table, filters, ord, sortField, sortOrder, limit, offset) ==
    LET w == IF Cardinality(DOMAIN filters) > 0
             THEN hostFilterLoop(filters, ord, <<>>)
             ELSE [err |-> "none", field |-> "", conds |-> <<>>]
    IN  IF w.err # "none" THEN Rejected("filter", w.field)
        ELSE IF sortField # "" /\ ~isAllowedField(sortField, aptAllowedSortFields)
        THEN Rejected("sort", sortField)
        ELSE LET lc == limitClause(limit, offset)
                 q  == [conds |-> w.conds, orderBy |-> sortField,
                        dir |-> upperOrder(sortOrder),
                        hasLimit |-> lc.hasLimit, limit |-> limit,
                        hasOffset |-> lc.hasOffset, offset |-> offset]
                 r  == ExecSelect(table, q, hostColumns)
             IN  [err |-> r.err, field |-> "", executed |-> TRUE,
                  rows |-> PackagesOf(r.rows), count |-> Len(r.rows)]

CountHostImagePackages(table, filters, ord) ==
    LET w == IF Cardinality(DOMAIN filters) > 0
             THEN hostFilterLoop(filters, ord, <<>>)
             ELSE [err |-> "none", field |-> "", conds |-> <<>>]
    IN  IF w.err # "none" THEN Rejected("filter", w.field)
        ELSE LET q == [conds |-> w.conds, orderBy |-> "", dir |-> "ASC",
                       hasLimit |-> FALSE, limit |-> 0,
                       hasOffset |-> FALSE, offset |-> 0]
                 r == ExecSelect(table, q, hostColumns)
             IN  [err |-> r.err, field |-> "", executed |-> TRUE,
                  rows |-> <<>>, count |-> Len(r.rows)]

\* `if containerName != "" { conditions = append(conditions, "container = ?") }`
containerCond(containerName) ==
    IF containerName # <<>> THEN <<Cond("eq", "container", containerName)>>
    ELSE <<>>

QueryPackages(table, containerName, filters, ord, sortField, sortOrder, limit, offset) ==
    LET w == distroFilterLoop(filters, ord, containerCond(containerName))
    IN  IF w.err # "none" THEN Rejected("filter", w.field)
        ELSE IF sortField # "" /\ ~isAllowedField(sortField, distroAllowedSortFields)
        THEN Rejected("sort", sortField)
        ELSE LET lc == limitClause(limit, offset)
                 q  == [conds |-> w.conds, orderBy |-> sortField,
                        dir |-> upperOrder(sortOrder),
                        hasLimit |-> lc.hasLimit, limit |-> limit,
                        hasOffset |-> lc.hasOffset, offset |-> offset]
                 r  == ExecSelect(table, q, distroColumns)
             IN  [err |-> r.err, field |-> "", executed |-> TRUE,
                  rows |-> PackageInfosOf(r.rows), count |-> Len(r.rows)]

CountTotalPackages(table, containerName, filters, ord) ==
    LET w == distroFilterLoop(filters, ord, containerCond(containerName))
    IN  IF w.err # "none" THEN Rejected("filter", w.field)
        ELSE LET q == [conds |-> w.conds, orderBy |-> "", dir |-> "ASC",
                       hasLimit |-> FALSE, limit |-> 0,
                       hasOffset |-> FALSE, offset |-> 0]
                 r == ExecSelect(table, q, distroColumns)
             IN  [err |-> r.err, field |-> "", executed |-> TRUE,
                  rows |-> <<>>, count |-> Len(r.rows)]

(***************************************************************************)
(* State                                                                   *)
(***************************************************************************)

VARIABLES
    hostTableExists,     \* host_image_packages has been created
    hostDB,              \* committed rows of host_image_packages, in rowid order
    distroDB,            \* committed rows of distrobox_packages
    syncDBMutex,         \* holder of apt.syncDBMutex, or "free"
    pc,                  \* per goroutine: the statement it is about to run
    loc,                 \* per goroutine: the locals of the running call
    tmpInstalled,        \* per pooled connection: TEMP table tmp_installed exists
    obs,                 \* what the last reader saw, relative to a replace in flight
    emptyVersionSynced,  \* history: some reconcile was given an empty version
    qres,                \* the last query-engine call and what it returned
    IsAtomic,            \* lib.Env.IsAtomic
    hostConfig,          \* serviceHostConfig.Config: the install and remove lists
    req                  \* the Install or Remove request in progress

vars == <<hostTableExists, hostDB, distroDB, syncDBMutex, pc, loc, tmpInstalled,
          obs, emptyVersionSynced, qres, IsAtomic, hostConfig, req>>

(***************************************************************************)
(* Inputs of the host store                                                *)
(***************************************************************************)

\* Goroutines serving requests (CLI request, D-Bus service handlers).
Procs == {"p1", "p2"}

\* Connections of the database/sql pool.
Conns == {"c1", "c2"}

\* Names a scan lists, in scan order.
NameSeq == << <<"a">>, <<"b">> >>

Names == Range(NameSeq)

\* A name the package manager may report installed that no scan lists.
Unlisted == <<"c">>

ScanPkg(name, inst) ==
    [Name             |-> name,
     Version          |-> IF name = <<"a">> THEN <<"1">> ELSE <<"2">>,
     VersionInstalled |-> IF inst THEN <<"1">> ELSE <<>>,
     Depends          |-> IF name = <<"b">> THEN << <<"a">> >> ELSE <<>>,
     Provides         |-> IF name = <<"a">> THEN << <<"x">> >> ELSE <<>>,
     Installed        |-> inst]

\* The increasing enumeration of a set of indices.
RECURSIVE SortedSeq(_)
SortedSeq(S) ==
    IF S = {} THEN <<>>
    ELSE LET m == CHOOSE x \in S : \A y \in S : x <= y
         IN  <<m>> \o SortedSeq(S \ {m})

\* The scans: any sub-list of NameSeq (names are unique within a scan), each
\* package installed or not; every package satisfies
\* Installed <=> VersionInstalled # "".
Scans ==
    {LET idx == SortedSeq(S)
     IN  [k \in 1..Len(idx) |-> ScanPkg(NameSeq[idx[k]], inst[idx[k]])] :
        S \in SUBSET (1..Len(NameSeq)), inst \in [1..Len(NameSeq) -> BOOLEAN]}

\* Installed sets (name -> version), as GetInstalledPackages may hand them
\* over; the versions include the empty string.
InstalledVersions == {<<"2">>, <<>>}

InstalledMaps ==
    LET listed == UNION {[D -> InstalledVersions] : D \in SUBSET Names}
    IN  listed \cup {[n \in DOMAIN m \cup {Unlisted} |-> 
                         IF n = Unlisted THEN <<"2">> ELSE m[n]] :
                     m \in {l \in listed : \A n \in DOMAIN l : l[n] # <<>>}}

NoMap == [n \in {} |-> <<>>]

\* batchSize := 1000 in the source; scaled down so that a scan of the model
\* spans several batches.
batchSize == 1

Idle ==
    [op |-> "none", packages |-> <<>>, installed |-> NoMap, i |-> 0,
     txRows |-> <<>>, conn |-> "none", tmpCreated |-> FALSE, tmpRows |-> NoMap,
     prior |-> <<>>, err |-> "none"]

NoCall == [op |-> "none"]

\* The configuration before any package was recorded, and no request.
NoConfig == [install |-> {}, remove |-> {}]

NoRequest == [op |-> "none"]

(***************************************************************************)
(* PackageDBService.SavePackagesToDB                                       *)
(***************************************************************************)

\* Leave the call with error e: the statement after `return`.
Fail(p, e) ==
    /\ pc' = [pc EXCEPT ![p] = "exit"]
    /\ loc' = [loc EXCEPT ![p].err = e, ![p].txRows = <<>>,
                          ![p].tmpCreated = FALSE, ![p].tmpRows = NoMap]

\* syncDBMutex.Lock() at the entry of SavePackagesToDB(ctx, packages).
SaveLock(p, packages) ==
    /\ pc[p] = "idle"
    /\ syncDBMutex = "free"
    /\ syncDBMutex' = p
    /\ pc' = [pc EXCEPT ![p] = "saveCreate"]
    /\ loc' = [loc EXCEPT ![p] = [Idle EXCEPT !.op = "save",
                                              !.packages = packages,
                                              !.prior = hostDB]]
    /\ UNCHANGED <<hostTableExists, hostDB, distroDB, tmpInstalled, obs,
                   emptyVersionSynced, qres,
                   IsAtomic, hostConfig, req>>

\* s.dbConn.Exec(CREATE TABLE IF NOT EXISTS ...): auto-committed.
SaveCreate(p) ==
    /\ pc[p] = "saveCreate"
    /\ \/ /\ hostTableExists' = TRUE
          /\ pc' = [pc EXCEPT ![p] = "saveDelete"]
          /\ UNCHANGED loc
       \/ /\ Fail(p, "create")
          /\ UNCHANGED hostTableExists
    /\ UNCHANGED <<hostDB, distroDB, syncDBMutex, tmpInstalled, obs,
                   emptyVersionSynced, qres,
                   IsAtomic, hostConfig, req>>

\* Mutant: the DELETE is left out.
SaveDeleteSkipped(p) ==
    /\ pc[p] = "saveDelete"
    /\ \/ /\ pc' = [pc EXCEPT ![p] = "saveBegin"]
          /\ UNCHANGED loc
       \/ Fail(p, "delete")
    /\ UNCHANGED <<hostTableExists, hostDB, distroDB, syncDBMutex, tmpInstalled,
                   obs, emptyVersionSynced, qres,
                   IsAtomic, hostConfig, req>>

\* s.dbConn.Exec(DELETE FROM host_image_packages): run on the handle, before
\* the transaction begins, hence committed on its own.
SaveDelete(p) ==
    /\ pc[p] = "saveDelete"
    /\ \/ /\ hostDB' = <<>>
          /\ pc' = [pc EXCEPT ![p] = "saveBegin"]
          /\ UNCHANGED loc
       \/ /\ Fail(p, "delete")
          /\ UNCHANGED hostDB
    /\ UNCHANGED <<hostTableExists, distroDB, syncDBMutex, tmpInstalled, obs,
                   emptyVersionSynced, qres,
                   IsAtomic, hostConfig, req>>

\* tx, err := s.dbConn.Begin()
SaveBegin(p) ==
    /\ pc[p] = "saveBegin"
    /\ \/ /\ pc' = [pc EXCEPT ![p] = "saveBatch"]
          /\ loc' = [loc EXCEPT ![p].i = 0, ![p].txRows = <<>>]
       \/ Fail(p, "begin")
    /\ UNCHANGED <<hostTableExists, hostDB, distroDB, syncDBMutex, tmpInstalled,
                   obs, emptyVersionSynced, qres,
                   IsAtomic, hostConfig, req>>

\* One turn of `for i := 0; i < n; i += batchSize`: tx.Exec(INSERT ...) of
\* packages[i:end]; on an error tx.Rollback() and return.
SaveBatch(p) ==
    /\ pc[p] = "saveBatch"
    /\ loc[p].i < Len(loc[p].packages)
    /\ LET n     == Len(loc[p].packages)
           end   == Min(loc[p].i + batchSize, n)
           batch == SubSeq(loc[p].packages, loc[p].i + 1, end)
       IN  \/ /\ loc' = [loc EXCEPT ![p].txRows = @ \o RowsOf(batch),
                                    ![p].i = @ + batchSize]
              /\ UNCHANGED pc
           \/ Fail(p, "batch")
           \/ Fail(p, "rollback")
    /\ UNCHANGED <<hostTableExists, hostDB, distroDB, syncDBMutex, tmpInstalled,
                   obs, emptyVersionSynced, qres,
                   IsAtomic, hostConfig, req>>

\* tx.Commit() after the loop: the inserted rows become visible at once.
SaveCommit(p) ==
    /\ pc[p] = "saveBatch"
    /\ loc[p].i >= Len(loc[p].packages)
    /\ \/ /\ hostDB' = hostDB \o loc[p].txRows
          /\ pc' = [pc EXCEPT ![p] = "exit"]
          /\ loc' = [loc EXCEPT ![p].txRows = <<>>]
       \/ /\ Fail(p, "commit")
          /\ UNCHANGED hostDB
    /\ UNCHANGED <<hostTableExists, distroDB, syncDBMutex, tmpInstalled, obs,
                   emptyVersionSynced, qres,
                   IsAtomic, hostConfig, req>>

\* Mutant: a call that ends with an error returns without the Unlock.
ReturnLockedOnError(p) ==
    /\ pc[p] = "exit"
    /\ syncDBMutex' = IF loc[p].err = "none" THEN "free" ELSE syncDBMutex
    /\ pc' = [pc EXCEPT ![p] = "idle"]
    /\ loc' = [loc EXCEPT ![p] = Idle]
    /\ UNCHANGED <<hostTableExists, hostDB, distroDB, tmpInstalled, obs,
                   emptyVersionSynced, qres,
                   IsAtomic, hostConfig, req>>

\* The deferred syncDBMutex.Unlock() and the return to the caller.
Return(p) ==
    /\ pc[p] = "exit"
    /\ syncDBMutex' = "free"
    /\ pc' = [pc EXCEPT ![p] = "idle"]
    /\ loc' = [loc EXCEPT ![p] = Idle]
    /\ UNCHANGED <<hostTableExists, hostDB, distroDB, tmpInstalled, obs,
                   emptyVersionSynced, qres,
                   IsAtomic, hostConfig, req>>

(***************************************************************************)
(* PackageDBService.SyncPackageInstallationInfo                            *)
(***************************************************************************)

\* Mutant: a row whose name is not in tmp_installed keeps its version.
updateRowKeepVersion(row, tmp) ==
    [row EXCEPT !.installed = IF row.name \in DOMAIN tmp THEN 1 ELSE 0,
                !.versionInstalled = IF row.name \in DOMAIN tmp
                                     THEN tmp[row.name] ELSE @]

\* Mutant: only the installed flag is written.
updateRowFlagOnly(row, tmp) ==
    [row EXCEPT !.installed = IF row.name \in DOMAIN tmp THEN 1 ELSE 0]

\* The UPDATE of one row against the rows of tmp_installed:
\*   installed        = CASE WHEN EXISTS (... t.name = name) THEN 1 ELSE 0 END
\*   versionInstalled = COALESCE((SELECT t.version ... t.name = name), '')
updateRow(row, tmp) ==
    [row EXCEPT !.installed = IF row.name \in DOMAIN tmp THEN 1 ELSE 0,
                !.versionInstalled = IF row.name \in DOMAIN tmp
                                     THEN tmp[row.name] ELSE <<>>]

\* Mutant: the names of tmp_installed that have no row are inserted.
updateAllUpsert(rows, tmp) ==
    LET missing == {n \in DOMAIN tmp : \A k \in 1..Len(rows) : rows[k].name # n}
        Row(n)  == [name |-> n, version |-> tmp[n], versionInstalled |-> tmp[n],
                    depends |-> <<>>, provides |-> <<>>, installed |-> 1]
        RECURSIVE Rows(_)
        Rows(S) == IF S = {} THEN <<>>
                   ELSE LET n == CHOOSE x \in S : TRUE
                        IN  <<Row(n)>> \o Rows(S \ {n})
    IN  [k \in 1..Len(rows) |-> updateRow(rows[k], tmp)] \o Rows(missing)

\* The UPDATE statement: every row of the table.
updateAll(rows, tmp) == [k \in 1..Len(rows) |-> updateRow(rows[k], tmp)]

\* syncDBMutex.Lock() at the entry of
\* SyncPackageInstallationInfo(ctx, installedPackages).
SyncLock(p, installedPackages) ==
    /\ pc[p] = "idle"
    /\ syncDBMutex = "free"
    /\ syncDBMutex' = p
    /\ pc' = [pc EXCEPT ![p] = "syncBegin"]
    /\ loc' = [loc EXCEPT ![p] = [Idle EXCEPT !.op = "sync",
                                              !.installed = installedPackages,
                                              !.prior = hostDB]]
    /\ emptyVersionSynced' =
           (emptyVersionSynced
            \/ \E n \in DOMAIN installedPackages : installedPackages[n] = <<>>)
    /\ UNCHANGED <<hostTableExists, hostDB, distroDB, tmpInstalled, obs, qres,
                   IsAtomic, hostConfig, req>>

\* tx, err := s.dbConn.BeginTx(ctx, nil): the pool hands out a connection.
SyncBegin(p) ==
    /\ pc[p] = "syncBegin"
    /\ \/ \E c \in Conns :
            /\ pc' = [pc EXCEPT ![p] = "syncCreateTmp"]
            /\ loc' = [loc EXCEPT ![p].conn = c]
       \/ Fail(p, "begin")
    /\ UNCHANGED <<hostTableExists, hostDB, distroDB, syncDBMutex, tmpInstalled,
                   obs, emptyVersionSynced, qres,
                   IsAtomic, hostConfig, req>>

\* tx.ExecContext(CREATE TEMPORARY TABLE tmp_installed ...): fails when the
\* connection already has the table.
SyncCreateTmp(p) ==
    /\ pc[p] = "syncCreateTmp"
    /\ \/ /\ ~tmpInstalled[loc[p].conn]
          /\ pc' = [pc EXCEPT ![p] = "syncInsertTmp"]
          /\ loc' = [loc EXCEPT ![p].tmpCreated = TRUE, ![p].tmpRows = NoMap]
       \/ Fail(p, "createTmp")
    /\ UNCHANGED <<hostTableExists, hostDB, distroDB, syncDBMutex, tmpInstalled,
                   obs, emptyVersionSynced, qres,
                   IsAtomic, hostConfig, req>>

\* `if len(placeholders) > 0 { tx.ExecContext(INSERT INTO tmp_installed ...) }`
SyncInsertTmp(p) ==
    /\ pc[p] = "syncInsertTmp"
    /\ \/ /\ pc' = [pc EXCEPT ![p] = "syncUpdate"]
          /\ loc' = [loc EXCEPT ![p].tmpRows = loc[p].installed]
       \/ /\ DOMAIN loc[p].installed # {}
          /\ Fail(p, "insertTmp")
    /\ UNCHANGED <<hostTableExists, hostDB, distroDB, syncDBMutex, tmpInstalled,
                   obs, emptyVersionSynced, qres,
                   IsAtomic, hostConfig, req>>

\* tx.ExecContext(UPDATE host_image_packages SET ...): every row, inside the
\* transaction; fails when the table does not exist.
SyncUpdate(p) ==
    /\ pc[p] = "syncUpdate"
    /\ \/ /\ hostTableExists
          /\ pc' = [pc EXCEPT ![p] = "syncCommit"]
          /\ loc' = [loc EXCEPT ![p].txRows = updateAll(hostDB, loc[p].tmpRows)]
       \/ Fail(p, "update")
    /\ UNCHANGED <<hostTableExists, hostDB, distroDB, syncDBMutex, tmpInstalled,
                   obs, emptyVersionSynced, qres,
                   IsAtomic, hostConfig, req>>

\* tx.Commit(): the updated rows replace the committed ones, and the TEMP
\* table stays with the connection.
SyncCommit(p) ==
    /\ pc[p] = "syncCommit"
    /\ \/ /\ hostDB' = loc[p].txRows
          /\ tmpInstalled' = [tmpInstalled EXCEPT ![loc[p].conn] = TRUE]
          /\ pc' = [pc EXCEPT ![p] = "exit"]
          /\ loc' = [loc EXCEPT ![p].txRows = <<>>]
       \/ /\ Fail(p, "commit")
          /\ UNCHANGED <<hostDB, tmpInstalled>>
    /\ UNCHANGED <<hostTableExists, distroDB, syncDBMutex, obs,
                   emptyVersionSynced, qres,
                   IsAtomic, hostConfig, req>>

(***************************************************************************)
(* A reader: QueryHostImagePackages without filter, sort or limit, on a    *)
(* connection of its own.  It does not take syncDBMutex.                   *)
(***************************************************************************)

Replacing == {p \in Procs : loc[p].op = "save" /\ pc[p] # "idle"}

\* obs is "none" before any read; afterwards "torn" when the last read ran
\* while a replace of snapshot A by B was in flight and returned neither the
\* rows of A nor the rows of B, and "consistent" otherwise.
Read ==
    /\ hostTableExists
    /\ LET res == QueryHostImagePackages(hostDB, NoFilters, <<>>, "", "", 0, 0)
       IN  obs' = IF Replacing = {} THEN "consistent"
                  ELSE LET p == CHOOSE q \in Replacing : TRUE
                           A == PackagesOf(loc[p].prior)
                           B == PackagesOf(RowsOf(loc[p].packages))
                       IN  IF res.rows = A \/ res.rows = B THEN "consistent"
                           ELSE "torn"
    /\ UNCHANGED <<hostTableExists, hostDB, distroDB, syncDBMutex, pc, loc,
                   tmpInstalled, emptyVersionSynced, qres,
                   IsAtomic, hostConfig, req>>

(***************************************************************************)
(* The host store: concurrent replaces, reconciles and readers             *)
(***************************************************************************)

Init ==
    /\ hostTableExists = FALSE
    /\ hostDB = <<>>
    /\ distroDB = <<>>
    /\ syncDBMutex = "free"
    /\ pc = [p \in Procs |-> "idle"]
    /\ loc = [p \in Procs |-> Idle]
    /\ tmpInstalled = [c \in Conns |-> FALSE]
    /\ obs = "none"
    /\ emptyVersionSynced = FALSE
    /\ qres = NoCall
    /\ IsAtomic = TRUE
    /\ hostConfig = NoConfig
    /\ req = NoRequest

Next ==
    \/ \E p \in Procs, packages \in Scans : SaveLock(p, packages)
    \/ \E p \in Procs : SaveCreate(p)
    \/ \E p \in Procs : SaveDelete(p)
    \/ \E p \in Procs : SaveBegin(p)
    \/ \E p \in Procs : SaveBatch(p)
    \/ \E p \in Procs : SaveCommit(p)
    \/ \E p \in Procs, m \in InstalledMaps : SyncLock(p, m)
    \/ \E p \in Procs : SyncBegin(p)
    \/ \E p \in Procs : SyncCreateTmp(p)
    \/ \E p \in Procs : SyncInsertTmp(p)
    \/ \E p \in Procs : SyncUpdate(p)
    \/ \E p \in Procs : SyncCommit(p)
    \/ \E p \in Procs : Return(p)
    \/ Read

Spec == Init /\ [][Next]_vars

\* A step of the call that process p is in, from after its Lock to its
\* return.
Running(p) ==
    \/ SaveCreate(p) \/ SaveDelete(p) \/ SaveBegin(p) \/ SaveBatch(p)
    \/ SaveCommit(p)
    \/ SyncBegin(p) \/ SyncCreateTmp(p) \/ SyncInsertTmp(p) \/ SyncUpdate(p)
    \/ SyncCommit(p)
    \/ Return(p)

\* The host store with calls that go on: a goroutine inside a call is
\* scheduled again and every statement it sends to the database returns.
FairSpec == Spec /\ \A p \in Procs : WF_vars(Running(p))

(***************************************************************************)
(* The query engine on fixed tables                                        *)
(***************************************************************************)

\* Largest limit and offset a caller passes.
MaxLimit == 2

\* Packages of a scan with multi-valued fields of every shape: empty, one
\* element, several elements, an element that extends another.
QPkgs ==
    << [Name |-> <<"a">>, Version |-> <<"1">>, VersionInstalled |-> <<>>,
        Depends |-> <<>>, Provides |-> <<>>, Installed |-> FALSE],
       [Name |-> <<"b">>, Version |-> <<"1">>, VersionInstalled |-> <<"1">>,
        Depends |-> << <<"a", "b">> >>, Provides |-> << <<"a">> >>,
        Installed |-> TRUE],
       [Name |-> <<"a", "b">>, Version |-> <<"2">>, VersionInstalled |-> <<>>,
        Depends |-> << <<"b">>, <<"a">>, <<"x">> >>,
        Provides |-> << <<"x">>, <<"a">> >>, Installed |-> FALSE] >>

\* Rows of distrobox_packages, as SavePackagesToDB of two containers wrote them.
QDistroRows ==
    << [container |-> <<"c">>, name |-> <<"a">>, version |-> <<"1">>,
        installed |-> 1, exporting |-> 0],
       [container |-> <<"c">>, name |-> <<"b">>, version |-> <<"1">>,
        installed |-> 0, exporting |-> 1],
       [container |-> <<"x">>, name |-> <<"a">>, version |-> <<"2">>,
        installed |-> 0, exporting |-> 0] >>

\* The contents the tables start with: the rows of any selection of the
\* packages above, in any order.
QSelections ==
    {sel \in UNION {[1..n -> 1..3] : n \in 0..3} :
        \A i, j \in DOMAIN sel : i # j => sel[i] # sel[j]}

QHostValues(field) ==
    CASE field = "name"          -> {<<"a">>}
      [] field = "installed"     -> {<<"1">>, <<"0">>, <<"x">>}
      [] field = "depends"       -> {<<"a">>, <<"b">>, <<"x">>, <<"a", "b">>,
                                     <<"a", "_">>}
      [] field = "provides"      -> {<<"a">>}
      [] field = "installedSize" -> {<<"1">>}
      [] field = "bogus"         -> {<<"a">>}

QDistroValues(field) ==
    CASE field = "name"      -> {<<"a">>}
      [] field = "installed" -> {<<"1">>, <<"x">>}
      [] field = "exporting" -> {<<"0">>, <<"x">>}
      [] field = "bogus"     -> {<<"a">>}

QHostFields == {"name", "installed", "depends", "provides", "installedSize", "bogus"}

QDistroFields == {"name", "installed", "exporting", "bogus"}

\* Filter maps of at most two keys over the given fields; a map of two keys
\* takes its values from a smaller set.
QFilters(fields) ==
    {NoFilters}
    \cup UNION {[{f} -> UNION {QHostValues(h) : h \in QHostFields}] : f \in fields}
    \cup UNION {[{f, g} -> {<<"a">>, <<"1">>, <<"x">>, <<"0">>}] : f, g \in fields}

QHostFilters ==
    {m \in QFilters(QHostFields) :
        /\ \A f \in DOMAIN m : m[f] \in QHostValues(f)
        /\ Cardinality(DOMAIN m) = 2 =>
              \A f \in DOMAIN m : m[f] \in {<<"a">>, <<"1">>, <<"x">>}}

QDistroFilters ==
    {m \in QFilters(QDistroFields) :
        \A f \in DOMAIN m : m[f] \in QDistroValues(f)}

\* The orders in which `range filters` may walk the keys of a map.
Orders(m) ==
    {ord \in [1..Cardinality(DOMAIN m) -> DOMAIN m] :
        \A i, j \in DOMAIN ord : i # j => ord[i] # ord[j]}

QSortFields == {"", "name", "installed", "bogus"}

QSortOrders == {"", "desc"}

QContainers == {<<>>, <<"c">>}

Call(op, container, filters, ord, sortField, sortOrder, limit, offset, out) ==
    [op |-> op, container |-> container, filters |-> filters, ord |-> ord,
     sortField |-> sortField, sortOrder |-> sortOrder, limit |-> limit,
     offset |-> offset, out |-> out]

\* The query operations write nothing, so a second call of a behaviour would
\* see what the first saw: a behaviour issues one call and keeps its result.
QUnchanged ==
    UNCHANGED <<hostTableExists, hostDB, distroDB, syncDBMutex, pc, loc,
                   tmpInstalled, obs, emptyVersionSynced, IsAtomic, hostConfig,
                   req>>

DoQueryHost(filters, ord, sortField, sortOrder, limit, offset) ==
    /\ qres' = Call("QueryHostImagePackages", <<>>, filters, ord, sortField,
                    sortOrder, limit, offset,
                    QueryHostImagePackages(hostDB, filters, ord, sortField,
                                           sortOrder, limit, offset))
    /\ QUnchanged

DoCountHost(filters, ord) ==
    /\ qres' = Call("CountHostImagePackages", <<>>, filters, ord, "", "", 0, 0,
                    CountHostImagePackages(hostDB, filters, ord))
    /\ QUnchanged

DoQueryDistro(container, filters, ord, sortField, sortOrder, limit, offset) ==
    /\ qres' = Call("QueryPackages", container, filters, ord, sortField,
                    sortOrder, limit, offset,
                    QueryPackages(distroDB, container, filters, ord, sortField,
                                  sortOrder, limit, offset))
    /\ QUnchanged

DoCountDistro(container, filters, ord) ==
    /\ qres' = Call("CountTotalPackages", container, filters, ord, "", "", 0, 0,
                    CountTotalPackages(distroDB, container, filters, ord))
    /\ QUnchanged

InitQuery ==
    /\ hostTableExists = TRUE
    /\ \E sel \in QSelections :
          /\ hostDB = [k \in DOMAIN sel |-> PackageToRow(QPkgs[sel[k]])]
          /\ distroDB = [k \in DOMAIN sel |-> QDistroRows[sel[k]]]
    /\ syncDBMutex = "free"
    /\ pc = [p \in Procs |-> "idle"]
    /\ loc = [p \in Procs |-> Idle]
    /\ tmpInstalled = [c \in Conns |-> FALSE]
    /\ obs = "none"
    /\ emptyVersionSynced = FALSE
    /\ qres = NoCall
    /\ IsAtomic = TRUE
    /\ hostConfig = NoConfig
    /\ req = NoRequest

\* A behaviour issues one call and keeps its result: the query operations
\* write nothing, so a second call would see what the first saw.
HostQueryCall ==
    /\ qres.op = "none"
    /\ \E filters \in QHostFilters, sortField \in QSortFields,
          sortOrder \in QSortOrders, limit \in -1..MaxLimit, offset \in 0..MaxLimit :
          \E ord \in Orders(filters) :
             DoQueryHost(filters, ord, sortField, sortOrder, limit, offset)

HostCountCall ==
    /\ qres.op = "none"
    /\ \E filters \in QHostFilters : \E ord \in Orders(filters) :
          DoCountHost(filters, ord)

DistroQueryCall ==
    /\ qres.op = "none"
    /\ \E container \in QContainers, filters \in QDistroFilters,
          sortField \in QSortFields, sortOrder \in QSortOrders,
          limit \in -1..MaxLimit, offset \in 0..MaxLimit :
          \E ord \in Orders(filters) :
             DoQueryDistro(container, filters, ord, sortField, sortOrder, limit, offset)

DistroCountCall ==
    /\ qres.op = "none"
    /\ \E container \in QContainers, filters \in QDistroFilters :
          \E ord \in Orders(filters) : DoCountDistro(container, filters, ord)

NextQuery ==
    \/ HostQueryCall
    \/ HostCountCall
    \/ DistroQueryCall
    \/ DistroCountCall

SpecQuery == InitQuery /\ [][NextQuery]_vars

(***************************************************************************)
(* The existence checks and the gate in front of a request                 *)
(***************************************************************************)

\* SELECT COUNT(*) FROM host_image_packages, scanned into count: the only
\* error is that of the statement; count is not looked at.
PackageDatabaseExist(tableExists, table) ==
    LET count == Len(table)
    IN  IF ~tableExists THEN "sql" ELSE "none"

\* SELECT COUNT(*) FROM distrobox_packages; `if count == 0 { return error }`
DatabaseExist(table) ==
    LET count == Len(table)
    IN  IF count = 0 THEN "norecords" ELSE "none"

\* SELECT COUNT(*) ... WHERE container = ?; `if count == 0 { return error }`
ContainerDatabaseExist(table, containerName) ==
    LET count == Len(Where(table, <<Cond("eq", "container", containerName)>>))
    IN  IF count = 0 THEN "norecords" ELSE "none"

GateContainers == {<<"c">>, <<"x">>, <<"y">>}

GateUnchanged ==
    UNCHANGED <<distroDB, syncDBMutex, pc, loc, tmpInstalled, obs,
                emptyVersionSynced, IsAtomic, hostConfig, req>>

PackageDatabaseExistCall ==
    /\ qres.op = "none"
    /\ qres' = [op |-> "PackageDatabaseExist", container |-> <<>>,
                err |-> PackageDatabaseExist(hostTableExists, hostDB)]
    /\ UNCHANGED <<hostTableExists, hostDB>>
    /\ GateUnchanged

DatabaseExistCall ==
    /\ qres.op = "none"
    /\ qres' = [op |-> "DatabaseExist", container |-> <<>>,
                err |-> DatabaseExist(distroDB)]
    /\ UNCHANGED <<hostTableExists, hostDB>>
    /\ GateUnchanged

ContainerDatabaseExistCall ==
    /\ qres.op = "none"
    /\ \E containerName \in GateContainers :
          qres' = [op |-> "ContainerDatabaseExist", container |-> containerName,
                   err |-> ContainerDatabaseExist(distroDB, containerName)]
    /\ UNCHANGED <<hostTableExists, hostDB>>
    /\ GateUnchanged

\* validateDB: when PackageDatabaseExist returns an error, checkRoot and then
\* Update, which scans the packages and saves them; the call records whether
\* the update was asked for and how many rows the table held.
validateDBCall ==
    /\ qres.op = "none"
    /\ LET err == PackageDatabaseExist(hostTableExists, hostDB)
           Done(e) == qres' = [op |-> "validateDB", container |-> <<>>, err |-> e,
                               update |-> err # "none", rowsBefore |-> Len(hostDB)]
       IN  IF err = "none"
           THEN Done("none") /\ UNCHANGED <<hostTableExists, hostDB>>
           ELSE \/ Done("root") /\ UNCHANGED <<hostTableExists, hostDB>>
                \/ Done("update") /\ UNCHANGED <<hostTableExists, hostDB>>
                \/ /\ Done("none")
                   /\ hostTableExists' = TRUE
                   /\ \E packages \in Scans : hostDB' = RowsOf(packages)
    /\ GateUnchanged

\* The stores when a request arrives: the host table missing, empty or
\* populated; the containers' table empty or populated.
InitGate ==
    /\ \E sel \in QSelections :
          \/ /\ hostTableExists = TRUE
             /\ hostDB = [k \in DOMAIN sel |-> PackageToRow(QPkgs[sel[k]])]
          \/ /\ sel = <<>>
             /\ hostTableExists = FALSE
             /\ hostDB = <<>>
    /\ \E sel \in QSelections :
          distroDB = [k \in DOMAIN sel |-> QDistroRows[sel[k]]]
    /\ syncDBMutex = "free"
    /\ pc = [p \in Procs |-> "idle"]
    /\ loc = [p \in Procs |-> Idle]
    /\ tmpInstalled = [c \in Conns |-> FALSE]
    /\ obs = "none"
    /\ emptyVersionSynced = FALSE
    /\ qres = NoCall
    /\ IsAtomic = TRUE
    /\ hostConfig = NoConfig
    /\ req = NoRequest

NextGate ==
    \/ PackageDatabaseExistCall
    \/ DatabaseExistCall
    \/ ContainerDatabaseExistCall
    \/ validateDBCall

SpecGate == InitGate /\ [][NextGate]_vars

(***************************************************************************)
(* The system actions Install and Remove                                   *)
(***************************************************************************)

\* GetPackageByName: SELECT ... WHERE name = ?, the first row scanned into a
\* Package; no row is an error.
GetPackageByName(table, packageName) ==
    LET rows == Where(table, <<Cond("eq", "name", packageName)>>)
    IN  IF rows = <<>> THEN [err |-> "notfound", pkg |-> <<>>]
        ELSE [err |-> "none", pkg |-> RowToPackage(rows[1])]

Markers == {"+", "-"}

lastChar(pkg) == pkg[Len(pkg)]

\* pkg[:len(pkg)-1]
cleaned(pkg) == SubSeq(pkg, 1, Len(pkg) - 1)

\* The number of alternatives Install asks for.
altLimit == 5

\* The lookup of one requested name in the loop of Install: by the name as
\* given and, when that fails and the name ends in a marker, once more
\* without its last character.
lookupInstall(table, pkg) ==
    LET first == GetPackageByName(table, pkg)
    IN  IF first.err = "none" THEN [err |-> "none", pkg |-> first.pkg, multi |-> FALSE]
        ELSE IF Len(pkg) > 0 /\ lastChar(pkg) \in Markers
        THEN LET second == GetPackageByName(table, cleaned(pkg))
             IN  [err |-> second.err, pkg |-> second.pkg,
                  multi |-> second.err = "none"]
        ELSE [err |-> first.err, pkg |-> first.pkg, multi |-> FALSE]

\* The names of the packages that provide originalPkg, as Install asks for
\* them: QueryHostImagePackages({"provides": originalPkg}, "", "", 5, 0).
alternativePackages(table, originalPkg) ==
    QueryHostImagePackages(table, [f \in {"provides"} |-> originalPkg],
                           <<"provides">>, "", "", altLimit, 0)

\* Mutant: a name that is not found is left out and the loop goes on.
RECURSIVE resolveInstallSkip(_, _, _, _)
resolveInstallSkip(table, packages, i, acc) ==
    IF i > Len(packages) THEN [acc EXCEPT !.status = "ok"]
    ELSE LET originalPkg == packages[i]
             found       == lookupInstall(table, originalPkg)
         IN  IF found.err # "none"
             THEN resolveInstallSkip(table, packages, i + 1, acc)
             ELSE resolveInstallSkip(table, packages, i + 1,
                      [acc EXCEPT !.packagesInfo = Append(@, found.pkg),
                                  !.packageNames = Append(@, originalPkg),
                                  !.isMultiInstall = @ \/ found.multi])

\* The resolving loop of Install over packages[i..]: the names and packages
\* collected so far are in acc.  status is "ok" when every name was found,
\* else what the first name not found made of the request.
RECURSIVE resolveInstall(_, _, _, _)
resolveInstall(table, packages, i, acc) ==
    IF i > Len(packages) THEN [acc EXCEPT !.status = "ok"]
    ELSE LET originalPkg == packages[i]
             found       == lookupInstall(table, originalPkg)
         IN  IF found.err # "none"
             THEN LET alt == alternativePackages(table, originalPkg)
                  IN  IF alt.err # "none" THEN [acc EXCEPT !.status = "finderror"]
                      ELSE IF Len(alt.rows) = 0
                      THEN [acc EXCEPT !.status = "notfound"]
                      ELSE [acc EXCEPT !.status = "alternatives",
                                       !.altNames = [k \in 1..Len(alt.rows) |->
                                                        alt.rows[k].Name]]
             ELSE resolveInstall(table, packages, i + 1,
                      [acc EXCEPT !.packagesInfo = Append(@, found.pkg),
                                  !.packageNames = Append(@, originalPkg),
                                  !.isMultiInstall = @ \/ found.multi])

\* The resolving loop of Remove: every name is looked up as given.
RECURSIVE resolveRemove(_, _, _, _)
resolveRemove(table, packages, i, acc) ==
    IF i > Len(packages) THEN [acc EXCEPT !.status = "ok"]
    ELSE LET packageInfo == GetPackageByName(table, packages[i])
         IN  IF packageInfo.err # "none" THEN [acc EXCEPT !.status = "notfound"]
             ELSE resolveRemove(table, packages, i + 1,
                      [acc EXCEPT !.packagesInfo = Append(@, packageInfo.pkg),
                                  !.packageNames = Append(@, packageInfo.pkg.Name)])

Unresolved ==
    [status |-> "", packagesInfo |-> <<>>, packageNames |-> <<>>,
     isMultiInstall |-> FALSE, altNames |-> <<>>]


\* ---- the classified errors of a run (apt.MatchedError) ----

ErrPackageIsAlreadyNewest == "ErrPackageIsAlreadyNewest"

ErrPackageNotInstalled == "ErrPackageNotInstalled"

ErrCritical == "ErrCritical"

MatchedError(code, name) == [code |-> code, params |-> <<name>>]

NilError == [code |-> "nil", params |-> <<>>]

BenignCodes == {ErrPackageIsAlreadyNewest, ErrPackageNotInstalled}

\* Mutant: the last error that is not benign is returned.
RECURSIVE FindCriticalErrorLast(_)
FindCriticalErrorLast(errs) ==
    IF errs = <<>> THEN NilError
    ELSE IF errs[Len(errs)].code \notin BenignCodes THEN errs[Len(errs)]
    ELSE FindCriticalErrorLast(SubSeq(errs, 1, Len(errs) - 1))

\* apt.FindCriticalError: the errors are walked in order and the first one
\* whose code is not benign is returned; nil when there is none.
RECURSIVE FindCriticalError(_)
FindCriticalError(errs) ==
    IF errs = <<>> THEN NilError
    ELSE IF Head(errs).code \notin BenignCodes THEN Head(errs)
    ELSE FindCriticalError(Tail(errs))

\* `customError.Params[0]` of the errors of one code, in order.
paramsOf(customErrorList, code) ==
    LET sel == SelectSeq(customErrorList, LAMBDA e : e.code = code)
    IN  [k \in 1..Len(sel) |-> sel[k].params[1]]

\* ---- serviceHostConfig: the install and remove lists ----

IsInstalled(cfg, name) == name \in cfg.install

IsRemoved(cfg, name) == name \in cfg.remove

AddInstallPackage(cfg, name) == [cfg EXCEPT !.install = @ \cup {name}]

AddRemovePackage(cfg, name) == [cfg EXCEPT !.remove = @ \cup {name}]

\* `for _, removedPkg := range alreadyRemovedPackages { if !IsRemoved ... }`
\* d is [cfg, diffPackageFound].
RECURSIVE driftRemoved(_, _)
driftRemoved(d, names) ==
    IF names = <<>> THEN d
    ELSE IF ~IsRemoved(d.cfg, Head(names))
    THEN driftRemoved([cfg |-> AddRemovePackage(d.cfg, Head(names)),
                       diffPackageFound |-> TRUE], Tail(names))
    ELSE driftRemoved(d, Tail(names))

\* `for _, installedPkg := range alreadyInstalledPackages { if !IsInstalled ... }`
RECURSIVE driftInstalled(_, _)
driftInstalled(d, names) ==
    IF names = <<>> THEN d
    ELSE IF ~IsInstalled(d.cfg, Head(names))
    THEN driftInstalled([cfg |-> AddInstallPackage(d.cfg, Head(names)),
                         diffPackageFound |-> TRUE], Tail(names))
    ELSE driftInstalled(d, Tail(names))

\* ---- applyChange ----

\* The loop that strips trailing markers until a package is found or no
\* marker is left.
RECURSIVE stripMarkers(_, _)
stripMarkers(table, canonicalPkg) ==
    IF Len(canonicalPkg) > 0 /\ lastChar(canonicalPkg) \in Markers
    THEN LET c == cleaned(canonicalPkg)
         IN  IF GetPackageByName(table, c).err = "none" THEN c
             ELSE stripMarkers(table, c)
    ELSE canonicalPkg

canonicalPkgOf(table, pkg) ==
    IF GetPackageByName(table, pkg).err # "none" THEN stripMarkers(table, pkg)
    ELSE pkg

\* Mutant: the marker is ignored and the request's intent is recorded.
applyEntryDefault(table, cfg, pkg, isInstall) ==
    IF Len(pkg) = 0 THEN cfg
    ELSE IF isInstall THEN AddInstallPackage(cfg, canonicalPkgOf(table, pkg))
    ELSE AddRemovePackage(cfg, canonicalPkgOf(table, pkg))

\* One round of the loop of applyChange.
applyEntry(table, cfg, pkg, isInstall) ==
    IF Len(pkg) = 0 THEN cfg
    ELSE LET canonicalPkg == canonicalPkgOf(table, pkg)
         IN  IF lastChar(pkg) = "+" THEN AddInstallPackage(cfg, canonicalPkg)
             ELSE IF lastChar(pkg) = "-" THEN AddRemovePackage(cfg, canonicalPkg)
             ELSE IF isInstall THEN AddInstallPackage(cfg, canonicalPkg)
             ELSE AddRemovePackage(cfg, canonicalPkg)

RECURSIVE applyEntries(_, _, _, _)
applyEntries(table, cfg, packages, isInstall) ==
    IF packages = <<>> THEN cfg
    ELSE applyEntries(table, applyEntry(table, cfg, Head(packages), isInstall),
                      Tail(packages), isInstall)


\* applyChange(packages, isInstall): fail is the collaborator that fails,
\* "load" for LoadConfig, "build" for GenerateDockerfile or BuildAndSwitch,
\* "none" when all succeed.  Returns the error, the configuration left and
\* whether the image was rebuilt.
applyChange(table, cfg, packages, isInstall, atomic, fail) ==
    IF ~atomic THEN [err |-> "notatomic", cfg |-> cfg, built |-> FALSE]
    ELSE IF fail = "load" THEN [err |-> "load", cfg |-> cfg, built |-> FALSE]
    ELSE LET applied == applyEntries(table, cfg, packages, isInstall)
         IN  IF fail = "build" THEN [err |-> "build", cfg |-> applied, built |-> FALSE]
             ELSE [err |-> "none", cfg |-> applied, built |-> TRUE]

\* ---- requests ----

IPkg(name, provides, installed) ==
    [Name |-> name, Version |-> <<"1">>,
     VersionInstalled |-> IF installed THEN <<"1">> ELSE <<>>,
     Depends |-> <<>>, Provides |-> provides, Installed |-> installed]

\* The packages of the scan the requests run against: a provides v, c+ is a
\* package whose name ends in a marker, and six packages provide w.
InstallPkgs ==
    << IPkg(<<"a">>, << <<"v">> >>, TRUE),
       IPkg(<<"b">>, << <<"w">> >>, FALSE),
       IPkg(<<"c", "+">>, <<>>, FALSE),
       IPkg(<<"d">>, << <<"w">> >>, FALSE),
       IPkg(<<"e">>, << <<"w">> >>, FALSE),
       IPkg(<<"f">>, << <<"w">> >>, FALSE),
       IPkg(<<"g">>, << <<"w">> >>, FALSE),
       IPkg(<<"h">>, << <<"w">> >>, FALSE) >>

\* Requested names: packages, packages with one or two markers, names only
\* provided, an unknown name.
RequestNames ==
    {<<"a">>, <<"b">>, <<"a", "+">>, <<"a", "-">>, <<"a", "+", "-">>,
     <<"c", "+">>, <<"c", "+", "+">>, <<"v">>, <<"w">>, <<"z">>}

Requests ==
    {<<>>} \cup {<<n>> : n \in RequestNames}
    \cup {<< <<"a">>, <<"b">> >>, << <<"a">>, <<"z">> >>, << <<"z">>, <<"a">> >>,
          << <<"a", "+">>, <<"b", "-">> >>, << <<"a", "-">>, <<"v">> >>,
          << <<"b">>, <<"a", "+", "-">> >>}

\* packageParse: the counts of the simulated run.
Parse(new, upgraded, removed) ==
    [NewInstalledCount |-> new, UpgradedCount |-> upgraded, RemovedCount |-> removed]

Parses == {Parse(0, 0, 0), Parse(1, 0, 0), Parse(0, 1, 0), Parse(0, 0, 1)}

SimErrors ==
    {MatchedError(ErrPackageIsAlreadyNewest, <<"a">>),
     MatchedError(ErrPackageIsAlreadyNewest, <<"b">>),
     MatchedError(ErrPackageNotInstalled, <<"a">>),
     MatchedError(ErrCritical, <<"a">>),
     MatchedError(ErrCritical, <<"b">>)}

\* aptErrors: at most two classified errors, in the order they were met.
ErrorLists ==
    {<<>>} \cup {<<e>> : e \in SimErrors} \cup {<<e, f>> : e, f \in SimErrors}

\* errList of the real run.
RealErrorLists ==
    {<<>>, <<MatchedError(ErrPackageIsAlreadyNewest, <<"a">>)>>,
     <<MatchedError(ErrCritical, <<"a">>)>>,
     <<MatchedError(ErrPackageNotInstalled, <<"a">>),
       MatchedError(ErrCritical, <<"a">>)>>}

\* GetInstalledPackages after the real run.
InstalledSnapshots ==
    {[n \in {<<"a">>} |-> <<"1">>], [n \in {<<"a">>, <<"b">>} |-> <<"1">>],
     [n \in {<<"c", "+">>} |-> <<"1">>]}

Configs ==
    {NoConfig, [install |-> {<<"a">>}, remove |-> {}],
     [install |-> {}, remove |-> {<<"a">>}]}

\* reply.APIResponse and the error returned with it ("nil" for none);
\* cause is the classified error the request failed with.
Response(Error, err, message, packages, cause) ==
    [Error |-> Error, err |-> err, message |-> message, packages |-> packages,
     cause |-> cause]

NoResponse == Response(FALSE, "nil", "", <<>>, NilError)

\* A request that has passed checkRoot and validateDB.
NewRequest(op, packages, apply) ==
    [op |-> op, packages |-> packages, apply |-> apply, pc |-> "start",
     packagesInfo |-> <<>>, packageNames |-> <<>>, isMultiInstall |-> FALSE,
     packageParse |-> Parse(0, 0, 0), aptErrors |-> <<>>, errList |-> <<>>,
     dialogShown |-> FALSE, dialogStatus |-> "", realExecuted |-> FALSE, reconciled |-> FALSE,
     built |-> FALSE, config0 |-> hostConfig, resp |-> NoResponse]

Finish(r, resp) == [r EXCEPT !.pc = "done", !.resp = resp]

\* Mutant: the request goes on to the dialog.
failCriticalIgnored(r, criticalError) == [r EXCEPT !.pc = "dialog"]

\* `if criticalError != nil { return a.newErrorResponse(...), criticalError }`
\* after the simulation.
failCritical(r, criticalError) ==
    Finish(r, Response(TRUE, "critical", "critical", <<>>, criticalError))

ReqUnchanged ==
    UNCHANGED <<hostTableExists, distroDB, syncDBMutex, pc, loc, tmpInstalled,
                obs, emptyVersionSynced, qres, IsAtomic>>


\* Install up to the simulation: checkRoot, validateDB (the database is
\* there), the empty request, the resolving loop.
InstallRequest ==
    /\ req.op = "none"
    /\ PackageDatabaseExist(hostTableExists, hostDB) = "none"
    /\ \E packages \in Requests, apply \in BOOLEAN, root \in BOOLEAN :
          LET r   == NewRequest("Install", packages, apply)
              res == resolveInstall(hostDB, packages, 1, Unresolved)
          IN  req' =
                IF ~root THEN Finish(r, Response(TRUE, "root", "root", <<>>, NilError))
                ELSE IF Len(packages) = 0
                THEN Finish(r, Response(TRUE, "nil", "nopackages", <<>>, NilError))
                ELSE IF res.status = "ok"
                THEN [r EXCEPT !.pc = "check",
                               !.packagesInfo = res.packagesInfo,
                               !.packageNames = res.packageNames,
                               !.isMultiInstall = res.isMultiInstall]
                ELSE IF res.status = "alternatives"
                THEN Finish(r, Response(TRUE, "nil", "alternatives", res.altNames,
                                        NilError))
                ELSE Finish(r, Response(TRUE, "notfound", "notfound", <<>>, NilError))
    /\ UNCHANGED <<hostDB, hostConfig>>
    /\ ReqUnchanged

\* Remove up to the simulation.
RemoveRequest ==
    /\ req.op = "none"
    /\ PackageDatabaseExist(hostTableExists, hostDB) = "none"
    /\ \E packages \in Requests, apply \in BOOLEAN, root \in BOOLEAN :
          LET r   == NewRequest("Remove", packages, apply)
              res == resolveRemove(hostDB, packages, 1, Unresolved)
          IN  req' =
                IF ~root THEN Finish(r, Response(TRUE, "root", "root", <<>>, NilError))
                ELSE IF Len(packages) = 0
                THEN Finish(r, Response(TRUE, "nil", "nopackages", <<>>, NilError))
                ELSE IF res.status = "ok"
                THEN [r EXCEPT !.pc = "check",
                               !.packagesInfo = res.packagesInfo,
                               !.packageNames = res.packageNames]
                ELSE Finish(r, Response(TRUE, "notfound", "notfound", <<>>, NilError))
    /\ UNCHANGED <<hostDB, hostConfig>>
    /\ ReqUnchanged

\* The part of Install and Remove that follows a simulation implying no
\* change: with apply on an atomic system the lists of names are compared
\* with the configuration and, if one was missing, applyChange runs; the
\* response is the error "nothing to do" in every case.
nothingToDo(r, alreadyRemovedPackages, alreadyInstalledPackages, load, fail) ==
    LET nothing == Response(TRUE, "nothingtodo", "nothingtodo", <<>>, NilError)
    IN  IF ~(r.apply /\ IsAtomic) THEN [cfg |-> hostConfig, r |-> Finish(r, nothing)]
        ELSE IF ~load
        THEN [cfg |-> hostConfig,
              r   |-> Finish(r, Response(TRUE, "nil", "loadconfig", <<>>, NilError))]
        ELSE LET d1 == driftRemoved([cfg |-> hostConfig, diffPackageFound |-> FALSE],
                                    alreadyRemovedPackages)
                 d2 == driftInstalled(d1, alreadyInstalledPackages)
                 ac == applyChange(hostDB, d2.cfg, r.packages, r.op = "Install",
                                   IsAtomic, fail)
             IN  IF ~d2.diffPackageFound THEN [cfg |-> d2.cfg, r |-> Finish(r, nothing)]
                 ELSE IF ac.err # "none"
                 THEN [cfg |-> ac.cfg,
                       r   |-> Finish(r, Response(TRUE, "apply", "apply", <<>>, NilError))]
                 ELSE [cfg |-> ac.cfg,
                       r   |-> Finish([r EXCEPT !.built = TRUE], nothing)]

ApplyFailures == {"none", "load", "build"}

\* Install: the simulation (Check) and what follows it up to the dialog.
InstallCheck ==
    /\ req.op = "Install" /\ req.pc = "check"
    /\ \E packageParse \in Parses, aptErrors \in ErrorLists,
          load \in BOOLEAN, fail \in ApplyFailures :
          LET r               == [req EXCEPT !.packageParse = packageParse,
                                             !.aptErrors = aptErrors]
              criticalError   == FindCriticalError(aptErrors)
              customErrorList == aptErrors
              n == nothingToDo(r,
                       paramsOf(customErrorList, ErrPackageNotInstalled),
                       paramsOf(customErrorList, ErrPackageIsAlreadyNewest),
                       load, fail)
          IN  IF criticalError # NilError
              THEN /\ req' = failCritical(r, criticalError)
                   /\ UNCHANGED hostConfig
              ELSE IF /\ Len(customErrorList) > 0
                      /\ packageParse.NewInstalledCount = 0
                      /\ packageParse.UpgradedCount = 0
                      /\ packageParse.RemovedCount = 0
              THEN req' = n.r /\ hostConfig' = n.cfg
              ELSE req' = [r EXCEPT !.pc = "dialog"] /\ UNCHANGED hostConfig
    /\ UNCHANGED hostDB
    /\ ReqUnchanged

\* Remove: the simulation and what follows it up to the dialog.
RemoveCheck ==
    /\ req.op = "Remove" /\ req.pc = "check"
    /\ \E packageParse \in Parses, aptErrors \in ErrorLists,
          load \in BOOLEAN, fail \in ApplyFailures :
          LET r               == [req EXCEPT !.packageParse = packageParse,
                                             !.aptErrors = aptErrors]
              criticalError   == FindCriticalError(aptErrors)
              customErrorList == aptErrors
              n == nothingToDo(r,
                       paramsOf(customErrorList, ErrPackageNotInstalled), <<>>,
                       load, fail)
          IN  IF criticalError # NilError
              THEN /\ req' = failCritical(r, criticalError)
                   /\ UNCHANGED hostConfig
              ELSE IF packageParse.RemovedCount = 0
              THEN req' = n.r /\ hostConfig' = n.cfg
              ELSE req' = [r EXCEPT !.pc = "dialog"] /\ UNCHANGED hostConfig
    /\ UNCHANGED hostDB
    /\ ReqUnchanged


DialogResults == {"yes", "no", "error"}

\* Mutant: a refusal is taken for a confirmation.
cancelDialogIgnored(r) == [r EXCEPT !.pc = "execute"]

\* `if !dialogStatus { return reply.APIResponse{..., Error: false}, nil }`
cancelDialog(r) == Finish(r, Response(FALSE, "nil", "cancel", <<>>, NilError))

\* apt.NewDialog and the return on an error or a refusal.
Confirm ==
    /\ req.op \in {"Install", "Remove"} /\ req.pc = "dialog"
    /\ \E dialogStatus \in DialogResults :
          LET r == [req EXCEPT !.dialogShown = TRUE, !.dialogStatus = dialogStatus]
          IN  req' = CASE dialogStatus = "error" ->
                            Finish(r, Response(TRUE, "dialog", "dialog", <<>>, NilError))
                       [] dialogStatus = "no" -> cancelDialog(r)
                       [] dialogStatus = "yes" -> [r EXCEPT !.pc = "execute"]
    /\ UNCHANGED <<hostDB, hostConfig>>
    /\ ReqUnchanged

\* Mutant: the errors of the real run are not looked at.
ExecuteUnchecked ==
    /\ req.op \in {"Install", "Remove"} /\ req.pc = "execute"
    /\ \E errList \in RealErrorLists :
          LET r             == [req EXCEPT !.realExecuted = TRUE,
                                           !.errList = errList]
              criticalError == FindCriticalError(errList)
          IN  req' = IF FALSE
                     THEN Finish(r, Response(TRUE, "critical", "execution", <<>>,
                                             criticalError))
                     ELSE [r EXCEPT !.pc = "resync"]
    /\ UNCHANGED <<hostDB, hostConfig>>
    /\ ReqUnchanged

\* serviceAptActions.Install / Remove: the real run and its error list.
Execute ==
    /\ req.op \in {"Install", "Remove"} /\ req.pc = "execute"
    /\ \E errList \in RealErrorLists :
          LET r             == [req EXCEPT !.realExecuted = TRUE,
                                           !.errList = errList]
              criticalError == FindCriticalError(errList)
          IN  req' = IF criticalError # NilError
                     THEN Finish(r, Response(TRUE, "critical", "execution", <<>>,
                                             criticalError))
                     ELSE [r EXCEPT !.pc = "resync"]
    /\ UNCHANGED <<hostDB, hostConfig>>
    /\ ReqUnchanged

\* Mutant: applyChange runs whether apply was asked for or not.
ResyncApplyAlways ==
    /\ req.op \in {"Install", "Remove"} /\ req.pc = "resync"
    /\ \E sync \in {"none", "installed", "sync"},
          installedPackages \in InstalledSnapshots, fail \in ApplyFailures :
          IF sync # "none"
          THEN /\ req' = Finish(req, Response(TRUE, sync, "sync", <<>>, NilError))
               /\ UNCHANGED <<hostDB, hostConfig>>
          ELSE LET r  == [req EXCEPT !.reconciled = TRUE]
                   ac == IF req.op = "Install"
                         THEN applyChange(hostDB, hostConfig, req.packageNames, TRUE,
                                          IsAtomic, fail)
                         ELSE applyChange(hostDB, hostConfig, req.packages, FALSE,
                                          IsAtomic, fail)
               IN  /\ hostDB' = updateAll(hostDB, installedPackages)
                   /\ IF FALSE
                      THEN /\ req' = Finish(r, Response(FALSE, "nil", "ok", <<>>, NilError))
                           /\ UNCHANGED hostConfig
                      ELSE /\ hostConfig' = ac.cfg
                           /\ req' = IF ac.err # "none"
                                     THEN Finish(r, Response(TRUE, ac.err, "apply", <<>>,
                                                             NilError))
                                     ELSE Finish([r EXCEPT !.built = TRUE],
                                                 Response(FALSE, "nil", "ok", <<>>,
                                                          NilError))
    /\ ReqUnchanged

\* updateAllPackagesDB, then applyChange when apply was asked for, then the
\* response.  sync is "installed" when GetInstalledPackages fails, "sync"
\* when SyncPackageInstallationInfo fails, "none" when both succeed.
Resync ==
    /\ req.op \in {"Install", "Remove"} /\ req.pc = "resync"
    /\ \E sync \in {"none", "installed", "sync"},
          installedPackages \in InstalledSnapshots, fail \in ApplyFailures :
          IF sync # "none"
          THEN /\ req' = Finish(req, Response(TRUE, sync, "sync", <<>>, NilError))
               /\ UNCHANGED <<hostDB, hostConfig>>
          ELSE LET r  == [req EXCEPT !.reconciled = TRUE]
                   ac == IF req.op = "Install"
                         THEN applyChange(hostDB, hostConfig, req.packageNames, TRUE,
                                          IsAtomic, fail)
                         ELSE applyChange(hostDB, hostConfig, req.packages, FALSE,
                                          IsAtomic, fail)
               IN  /\ hostDB' = updateAll(hostDB, installedPackages)
                   /\ IF ~req.apply
                      THEN /\ req' = Finish(r, Response(FALSE, "nil", "ok", <<>>, NilError))
                           /\ UNCHANGED hostConfig
                      ELSE /\ hostConfig' = ac.cfg
                           /\ req' = IF ac.err # "none"
                                     THEN Finish(r, Response(TRUE, ac.err, "apply", <<>>,
                                                             NilError))
                                     ELSE Finish([r EXCEPT !.built = TRUE],
                                                 Response(FALSE, "nil", "ok", <<>>,
                                                          NilError))
    /\ ReqUnchanged

\* One request against a scanned store, on an atomic or a classic system,
\* with a configuration that records nothing or one package.
InitInstall ==
    /\ hostTableExists = TRUE
    /\ hostDB = RowsOf(InstallPkgs)
    /\ distroDB = <<>>
    /\ syncDBMutex = "free"
    /\ pc = [p \in Procs |-> "idle"]
    /\ loc = [p \in Procs |-> Idle]
    /\ tmpInstalled = [c \in Conns |-> FALSE]
    /\ obs = "none"
    /\ emptyVersionSynced = FALSE
    /\ qres = NoCall
    /\ IsAtomic \in BOOLEAN
    /\ hostConfig \in Configs
    /\ req = NoRequest

NextInstall ==
    \/ InstallRequest
    \/ RemoveRequest
    \/ InstallCheck
    \/ RemoveCheck
    \/ Confirm
    \/ Execute
    \/ Resync

SpecInstall == InitInstall /\ [][NextInstall]_vars

(***************************************************************************)
(* The container store: single-field updates                               *)
(***************************************************************************)

\* Mutant: the UPDATE has no condition on the container.
UpdatePackageFieldAnyContainer(table, containerName, name, fieldName, value, execOk) ==
    IF fieldName \notin {"installed", "exporting"} THEN table
    ELSE IF ~execOk THEN table
    ELSE [i \in 1..Len(table) |->
            IF table[i].name = name
            THEN [table[i] EXCEPT ![fieldName] = IF value THEN 1 ELSE 0]
            ELSE table[i]]

\* UpdatePackageField: a field outside allowedFields is logged and nothing
\* is run; else UPDATE ... SET field = ? WHERE container = ? AND name = ?,
\* whose error is logged (execOk tells whether the statement succeeded).
UpdatePackageField(table, containerName, name, fieldName, value, execOk) ==
    IF fieldName \notin {"installed", "exporting"} THEN table
    ELSE IF ~execOk THEN table
    ELSE LET intVal == IF value THEN 1 ELSE 0
         IN  [i \in 1..Len(table) |->
                IF table[i].container = containerName /\ table[i].name = name
                THEN [table[i] EXCEPT ![fieldName] = intVal]
                ELSE table[i]]

\* The tables the updates start from: the selections of the rows of two
\* containers, and one table that holds a package of a container twice.
DistroTables ==
    {[k \in DOMAIN sel |-> QDistroRows[sel[k]]] : sel \in QSelections}
    \cup {<<QDistroRows[1], QDistroRows[3], QDistroRows[1]>>}

UpdateFields == {"installed", "exporting", "version", "bogus"}

UpdateNames == {<<"a">>, <<"b">>, <<"z">>}

\* A behaviour makes one call and keeps the table it started from.
UpdatePackageFieldCall ==
    /\ qres.op = "none"
    /\ \E containerName \in GateContainers, name \in UpdateNames,
          fieldName \in UpdateFields, value \in BOOLEAN, execOk \in BOOLEAN :
          /\ distroDB' = UpdatePackageField(distroDB, containerName, name,
                                            fieldName, value, execOk)
          /\ qres' = [op |-> "UpdatePackageField", container |-> containerName,
                      name |-> name, fieldName |-> fieldName, value |-> value,
                      execOk |-> execOk, before |-> distroDB]
    /\ UNCHANGED <<hostTableExists, hostDB, syncDBMutex, pc, loc, tmpInstalled,
                   obs, emptyVersionSynced, IsAtomic, hostConfig, req>>

InitDistro ==
    /\ hostTableExists = FALSE
    /\ hostDB = <<>>
    /\ distroDB \in DistroTables
    /\ syncDBMutex = "free"
    /\ pc = [p \in Procs |-> "idle"]
    /\ loc = [p \in Procs |-> Idle]
    /\ tmpInstalled = [c \in Conns |-> FALSE]
    /\ obs = "none"
    /\ emptyVersionSynced = FALSE
    /\ qres = NoCall
    /\ IsAtomic = TRUE
    /\ hostConfig = NoConfig
    /\ req = NoRequest

NextDistro == UpdatePackageFieldCall

SpecDistro == InitDistro /\ [][NextDistro]_vars

(***************************************************************************)
(* Saving a package and reading it back by name                            *)
(*                                                                         *)
(* One caller saves one package with SavePackagesToDB and then reads it    *)
(* with GetPackageByName; what was saved and what was read are recorded    *)
(* in qres.                                                                *)
(***************************************************************************)

\* Names of a depends or provides list: the empty string and two names, none
\* holding the separator.
ListNames == {<<>>, <<"a">>, <<"b">>}

\* The longest depends or provides list saved.
MaxNames == 3

NameLists == UNION {[1..n -> ListNames] : n \in 0..MaxNames}

SavedName == <<"p">>

\* SavePackagesToDB([pkg]) of a single caller that returns nil: the table
\* is created if missing, then the DELETE, the INSERT of the batch and the
\* commit.
SaveOnePackage ==
    /\ qres.op = "none"
    /\ \E depends \in NameLists, provides \in NameLists :
          LET pkg == [Name |-> SavedName, Version |-> <<"1">>,
                      VersionInstalled |-> <<>>, Depends |-> depends,
                      Provides |-> provides, Installed |-> FALSE]
          IN  /\ hostDB' = RowsOf(<<pkg>>)
              /\ qres' = [op |-> "SavePackagesToDB", saved |-> pkg]
    /\ hostTableExists' = TRUE
    /\ GateUnchanged

\* GetPackageByName(packageName) after the save.
GetPackageByNameCall ==
    /\ qres.op = "SavePackagesToDB"
    /\ \E packageName \in {SavedName, <<"z">>} :
          qres' = [op |-> "GetPackageByName", saved |-> qres.saved,
                   name |-> packageName,
                   got |-> GetPackageByName(hostDB, packageName)]
    /\ UNCHANGED <<hostTableExists, hostDB>>
    /\ GateUnchanged

InitStore ==
    /\ hostTableExists \in BOOLEAN
    /\ hostDB = <<>>
    /\ distroDB = <<>>
    /\ syncDBMutex = "free"
    /\ pc = [p \in Procs |-> "idle"]
    /\ loc = [p \in Procs |-> Idle]
    /\ tmpInstalled = [c \in Conns |-> FALSE]
    /\ obs = "none"
    /\ emptyVersionSynced = FALSE
    /\ qres = NoCall
    /\ IsAtomic = TRUE
    /\ hostConfig = NoConfig
    /\ req = NoRequest

NextStore ==
    \/ SaveOnePackage
    \/ GetPackageByNameCall

SpecStore == InitStore /\ [][NextStore]_vars

(***************************************************************************)
(* The container actions Install and Remove                                *)
(*                                                                         *)
(* One call of Install or Remove of the distrobox Actions on a container   *)
(* whose packages are in the table.  The package service and the container *)
(* API are collaborators: their calls succeed or fail, and the package     *)
(* information is the row the table holds for the package.                 *)
(***************************************************************************)

\* GetPackageInfoByName: the first row of the container with that name.
GetPackageInfoByName(table, containerName, name) ==
    LET rows == {i \in 1..Len(table) :
                    table[i].container = containerName /\ table[i].name = name}
    IN  IF rows = {} THEN [err |-> "norows", Installed |-> FALSE, Exporting |-> FALSE]
        ELSE LET row == table[CHOOSE i \in rows : \A j \in rows : i <= j]
             IN  [err |-> "none", Installed |-> row.installed # 0,
                  Exporting |-> row.exporting # 0]

\* What a call answers: the error flag of the response and the flags of
\* the packageInfo it carries.
DistroResponse(Error, packageInfo) ==
    [Error |-> Error, Installed |-> packageInfo.Installed,
     Exporting |-> packageInfo.Exporting]

\* Failures of the collaborators of one call.
DistroFailures == {"none", "osinfo", "package", "export"}

DistroCall(op, container, packageName, flag, table, resp) ==
    /\ distroDB' = table
    /\ qres' = [op |-> op, container |-> container, name |-> packageName,
                flag |-> flag, resp |-> resp, before |-> distroDB]

\* Install(ctx, container, packageName, export); execInstalled and
\* execExporting tell whether the UPDATE of that flag succeeds.
DistroInstall ==
    /\ qres.op = "none"
    /\ \E container \in GateContainers, packageName \in UpdateNames,
          export \in BOOLEAN, fail \in DistroFailures,
          execInstalled \in BOOLEAN, execExporting \in BOOLEAN :
          /\ ContainerDatabaseExist(distroDB, container) = "none"
          /\ LET packageInfo == GetPackageInfoByName(distroDB, container, packageName)
                 Failed == DistroCall("Install", container, packageName, export,
                                         distroDB, DistroResponse(TRUE, packageInfo))
                 table1 == IF packageInfo.Installed THEN distroDB
                           ELSE UpdatePackageField(distroDB, container, packageName,
                                                   "installed", TRUE, execInstalled)
                 info1  == IF packageInfo.Installed THEN packageInfo
                           ELSE GetPackageInfoByName(table1, container, packageName)
             IN  IF fail = "osinfo" \/ packageInfo.err # "none" THEN Failed
                 ELSE IF ~packageInfo.Installed /\ fail = "package" THEN Failed
                 ELSE IF export /\ ~info1.Exporting
                 THEN IF fail = "export"
                      THEN DistroCall("Install", container, packageName, export,
                                         table1, DistroResponse(TRUE, info1))
                      ELSE DistroCall("Install", container, packageName, export,
                               UpdatePackageField(table1, container, packageName,
                                                  "exporting", TRUE, execExporting),
                               DistroResponse(FALSE, [info1 EXCEPT !.Exporting = TRUE]))
                 ELSE DistroCall("Install", container, packageName, export,
                                    table1, DistroResponse(FALSE, info1))
    /\ UNCHANGED <<hostTableExists, hostDB, syncDBMutex, pc, loc, tmpInstalled,
                   obs, emptyVersionSynced, IsAtomic, hostConfig, req>>

\* Remove(ctx, container, packageName, onlyExport).
DistroRemove ==
    /\ qres.op = "none"
    /\ \E container \in GateContainers, packageName \in UpdateNames,
          onlyExport \in BOOLEAN, fail \in DistroFailures,
          execInstalled \in BOOLEAN, execExporting \in BOOLEAN :
          /\ ContainerDatabaseExist(distroDB, container) = "none"
          /\ LET packageInfo == GetPackageInfoByName(distroDB, container, packageName)
                 Failed == DistroCall("Remove", container, packageName, onlyExport,
                                         distroDB, DistroResponse(TRUE, packageInfo))
                 table1 == IF ~packageInfo.Exporting THEN distroDB
                           ELSE UpdatePackageField(distroDB, container, packageName,
                                                   "exporting", FALSE, execExporting)
                 info1  == [packageInfo EXCEPT !.Exporting = FALSE]
             IN  IF fail = "osinfo" \/ packageInfo.err # "none" THEN Failed
                 ELSE IF packageInfo.Exporting /\ fail = "export" THEN Failed
                 ELSE IF ~onlyExport /\ info1.Installed
                 THEN IF fail = "package"
                      THEN DistroCall("Remove", container, packageName, onlyExport,
                                         table1, DistroResponse(TRUE, info1))
                      ELSE DistroCall("Remove", container, packageName, onlyExport,
                               UpdatePackageField(table1, container, packageName,
                                                  "installed", FALSE, execInstalled),
                               DistroResponse(FALSE, [info1 EXCEPT !.Installed = FALSE]))
                 ELSE DistroCall("Remove", container, packageName, onlyExport,
                                    table1, DistroResponse(FALSE, info1))
    /\ UNCHANGED <<hostTableExists, hostDB, syncDBMutex, pc, loc, tmpInstalled,
                   obs, emptyVersionSynced, IsAtomic, hostConfig, req>>

NextDistroActions ==
    \/ DistroInstall
    \/ DistroRemove

SpecDistroActions == InitDistro /\ [][NextDistroActions]_vars

(***************************************************************************)
(* DistroDBService.SavePackagesToDB and DeletePackagesFromContainer        *)
(*                                                                         *)
(* Two goroutines each make one call on the table of the containers; the   *)
(* container store takes no lock.  A call that is over stays at "return"   *)
(* with its arguments and its error.  A missing table is not told apart    *)
(* from an empty one: the statements on it fail like any other statement.  *)
(***************************************************************************)

\* Container names a call is made with; the empty name is refused.
SaveContainers == {<<>>, <<"c">>, <<"x">>}

DistroPkg(name) ==
    [Name |-> name, Version |-> <<"3">>, Installed |-> TRUE, Exporting |-> FALSE]

\* The package lists of a container scan.
DistroScans ==
    {<<>>, <<DistroPkg(<<"a">>)>>, <<DistroPkg(<<"b">>)>>,
     <<DistroPkg(<<"a">>), DistroPkg(<<"b">>)>>}

\* The values of the INSERT for one package of a container.
DistroPackageToRow(containerName, pkg) ==
    [container |-> containerName, name |-> pkg.Name, version |-> pkg.Version,
     installed |-> IF pkg.Installed THEN 1 ELSE 0,
     exporting |-> IF pkg.Exporting THEN 1 ELSE 0]

DistroRowsOf(containerName, packages) ==
    [i \in 1..Len(packages) |-> DistroPackageToRow(containerName, packages[i])]

\* batchSize := 1000 in the source; scaled down as for the host store.
distroBatchSize == batchSize

\* The rows DELETE ... WHERE container = ? leaves.
RECURSIVE DeleteContainerRows(_, _)
DeleteContainerRows(table, containerName) ==
    IF table = <<>> THEN <<>>
    ELSE IF Head(table).container = containerName
         THEN DeleteContainerRows(Tail(table), containerName)
         ELSE <<Head(table)>> \o DeleteContainerRows(Tail(table), containerName)

DistroIdle ==
    [op |-> "none", container |-> <<>>, packages |-> <<>>, i |-> 0,
     txRows |-> <<>>, err |-> "none"]

SaveUnchanged ==
    UNCHANGED <<hostTableExists, hostDB, syncDBMutex, tmpInstalled, obs,
                emptyVersionSynced, qres, IsAtomic, hostConfig, req>>

\* Leave the call with error e.
DistroFail(p, e) ==
    /\ pc' = [pc EXCEPT ![p] = "return"]
    /\ loc' = [loc EXCEPT ![p].err = e, ![p].txRows = <<>>]

\* The entry of SavePackagesToDB(ctx, containerName, packages) and its test
\* of the container name.
DistroSaveEnter(p, containerName, packages) ==
    /\ pc[p] = "idle"
    /\ LET call == [DistroIdle EXCEPT !.op = "save", !.container = containerName,
                                      !.packages = packages]
       IN  IF Len(containerName) = 0
           THEN /\ pc' = [pc EXCEPT ![p] = "return"]
                /\ loc' = [loc EXCEPT ![p] = [call EXCEPT !.err = "container"]]
           ELSE /\ pc' = [pc EXCEPT ![p] = "create"]
                /\ loc' = [loc EXCEPT ![p] = call]
    /\ UNCHANGED distroDB
    /\ SaveUnchanged

\* s.dbConn.Exec(CREATE TABLE IF NOT EXISTS ...)
DistroSaveCreate(p) ==
    /\ pc[p] = "create"
    /\ \/ /\ pc' = [pc EXCEPT ![p] = "delete"]
          /\ UNCHANGED loc
       \/ DistroFail(p, "create")
    /\ UNCHANGED distroDB
    /\ SaveUnchanged

\* Mutant: the DELETE has no WHERE clause.
DistroSaveDeleteAll(p) ==
    /\ pc[p] = "delete"
    /\ \/ /\ distroDB' = <<>>
          /\ pc' = [pc EXCEPT ![p] = "begin"]
          /\ UNCHANGED loc
       \/ /\ DistroFail(p, "delete")
          /\ UNCHANGED distroDB
    /\ SaveUnchanged

\* s.dbConn.Exec(DELETE FROM distrobox_packages WHERE container = ?): run on
\* the handle before the transaction begins, hence committed on its own.
DistroSaveDelete(p) ==
    /\ pc[p] = "delete"
    /\ \/ /\ distroDB' = DeleteContainerRows(distroDB, loc[p].container)
          /\ pc' = [pc EXCEPT ![p] = "begin"]
          /\ UNCHANGED loc
       \/ /\ DistroFail(p, "delete")
          /\ UNCHANGED distroDB
    /\ SaveUnchanged

\* tx, err := s.dbConn.Begin()
DistroSaveBegin(p) ==
    /\ pc[p] = "begin"
    /\ \/ /\ pc' = [pc EXCEPT ![p] = "batch"]
          /\ UNCHANGED loc
       \/ DistroFail(p, "begin")
    /\ UNCHANGED distroDB
    /\ SaveUnchanged

\* One turn of the batch loop: tx.Exec(INSERT ...) of packages[i:end]; on an
\* error tx.Rollback() and return.
DistroSaveBatch(p) ==
    /\ pc[p] = "batch"
    /\ loc[p].i < Len(loc[p].packages)
    /\ LET n     == Len(loc[p].packages)
           end   == Min(loc[p].i + distroBatchSize, n)
           batch == SubSeq(loc[p].packages, loc[p].i + 1, end)
       IN  \/ /\ loc' = [loc EXCEPT
                           ![p].txRows = @ \o DistroRowsOf(loc[p].container, batch),
                           ![p].i = @ + distroBatchSize]
              /\ UNCHANGED pc
           \/ DistroFail(p, "batch")
    /\ UNCHANGED distroDB
    /\ SaveUnchanged

\* return tx.Commit()
DistroSaveCommit(p) ==
    /\ pc[p] = "batch"
    /\ loc[p].i >= Len(loc[p].packages)
    /\ \/ /\ distroDB' = distroDB \o loc[p].txRows
          /\ pc' = [pc EXCEPT ![p] = "return"]
          /\ loc' = [loc EXCEPT ![p].txRows = <<>>]
       \/ /\ DistroFail(p, "commit")
          /\ UNCHANGED distroDB
    /\ SaveUnchanged

\* DeletePackagesFromContainer(ctx, containerName): one DELETE statement.
DeletePackagesFromContainer(p, containerName) ==
    /\ pc[p] = "idle"
    /\ LET call == [DistroIdle EXCEPT !.op = "delete", !.container = containerName]
       IN  \/ /\ distroDB' = DeleteContainerRows(distroDB, containerName)
              /\ loc' = [loc EXCEPT ![p] = call]
           \/ /\ loc' = [loc EXCEPT ![p] = [call EXCEPT !.err = "delete"]]
              /\ UNCHANGED distroDB
    /\ pc' = [pc EXCEPT ![p] = "return"]
    /\ SaveUnchanged

\* The table before the calls: rows of c and of x, of either, or none.
SaveTables ==
    {<<>>, <<QDistroRows[1], QDistroRows[2]>>, <<QDistroRows[3]>>,
     <<QDistroRows[1], QDistroRows[3], QDistroRows[2]>>}

InitDistroSave ==
    /\ hostTableExists = FALSE
    /\ hostDB = <<>>
    /\ distroDB \in SaveTables
    /\ syncDBMutex = "free"
    /\ pc = [p \in Procs |-> "idle"]
    /\ loc = [p \in Procs |-> DistroIdle]
    /\ tmpInstalled = [c \in Conns |-> FALSE]
    /\ obs = "none"
    /\ emptyVersionSynced = FALSE
    /\ qres = NoCall
    /\ IsAtomic = TRUE
    /\ hostConfig = NoConfig
    /\ req = NoRequest

NextDistroSave ==
    \/ \E p \in Procs, containerName \in SaveContainers, packages \in DistroScans :
          DistroSaveEnter(p, containerName, packages)
    \/ \E p \in Procs : DistroSaveCreate(p)
    \/ \E p \in Procs : DistroSaveDelete(p)
    \/ \E p \in Procs : DistroSaveBegin(p)
    \/ \E p \in Procs : DistroSaveBatch(p)
    \/ \E p \in Procs : DistroSaveCommit(p)
    \/ \E p \in Procs, containerName \in SaveContainers :
          DeletePackagesFromContainer(p, containerName)

SpecDistroSave == InitDistroSave /\ [][NextDistroSave]_vars

(***************************************************************************)
(* Properties of the host store (checked under Spec)                       *)
(***************************************************************************)

AtExit(p, op) == pc[p] = "exit" /\ loc[p].op = op

\* A row with the two fields a reconcile may write blanked out.
Frame(row) == [row EXCEPT !.installed = 0, !.versionInstalled = <<>>]

RowInvariant(row) == (row.installed = 1) <=> (row.versionInstalled # <<>>)

\* C1: SavePackagesToDB is atomic for readers: a query that runs while
\* snapshot A is being replaced by B returns the rows of A or the rows of B,
\* never anything else (such as an empty table when A and B are non-empty).
C1_ReadersSeeOldOrNew == obs # "torn"

\* C2: when a batch insert of SavePackagesToDB fails, the table holds, as the
\* call returns its error, exactly the rows it held before the call.
C2_FailedBatchKeepsSnapshot ==
    \A p \in Procs :
        (AtExit(p, "save") /\ loc[p].err \in {"batch", "rollback"})
            => hostDB = loc[p].prior

\* C3: a successful SavePackagesToDB(B) leaves exactly the rows of B,
\* whatever an earlier successful SavePackagesToDB(A) had left.
C3_ReplaceLeavesExactlyNew ==
    \A p \in Procs :
        (AtExit(p, "save") /\ loc[p].err = "none")
            => hostDB = RowsOf(loc[p].packages)

\* C3 witness: a replace succeeded on a non-empty table holding a package
\* the new scan does not list.
C3_Witness ==
    \E p \in Procs :
        /\ AtExit(p, "save") /\ loc[p].err = "none"
        /\ loc[p].packages # <<>>
        /\ \E k \in 1..Len(loc[p].prior) :
              \A j \in 1..Len(loc[p].packages) :
                  loc[p].packages[j].Name # loc[p].prior[k].name

\* C4: SyncPackageInstallationInfo, failed or not, adds and removes no row
\* and changes no field other than installed and versionInstalled.
C4_ReconcileKeepsRowsAndFrame ==
    \A p \in Procs :
        (loc[p].op = "sync" /\ pc[p] # "idle")
            => /\ Len(hostDB) = Len(loc[p].prior)
               /\ \A k \in 1..Len(hostDB) : Frame(hostDB[k]) = Frame(loc[p].prior[k])

\* C4 witness: a reconcile given a name no row has succeeded and changed a row.
C4_Witness ==
    \E p \in Procs :
        /\ AtExit(p, "sync") /\ loc[p].err = "none"
        /\ Unlisted \in DOMAIN loc[p].installed
        /\ hostDB # loc[p].prior

\* C5: after a successful SyncPackageInstallationInfo(installedPackages)
\* every row has installed = 1 exactly when its name is a key of the map,
\* and versionInstalled = the map's version for a key, '' otherwise.
C5_ReconcileSetsInstalled ==
    \A p \in Procs :
        (AtExit(p, "sync") /\ loc[p].err = "none")
            => \A k \in 1..Len(hostDB) :
                  LET row == hostDB[k]
                      m   == loc[p].installed
                  IN  /\ (row.installed = 1) <=> (row.name \in DOMAIN m)
                      /\ row.versionInstalled =
                            IF row.name \in DOMAIN m THEN m[row.name] ELSE <<>>

\* C5 witness: a successful reconcile over a row whose name is a key and a
\* row, installed before, whose name is not.
C5_Witness ==
    \E p \in Procs :
        /\ AtExit(p, "sync") /\ loc[p].err = "none"
        /\ \E j, k \in 1..Len(hostDB) :
              /\ hostDB[j].name \in DOMAIN loc[p].installed
              /\ loc[p].prior[j].installed = 0
              /\ hostDB[k].name \notin DOMAIN loc[p].installed
              /\ loc[p].prior[k].installed = 1

\* C6 as stated: in every reachable state every row has installed = 1
\* exactly when versionInstalled # '', for any installed set.
C6_InstalledIffVersion_Original ==
    \A k \in 1..Len(hostDB) : RowInvariant(hostDB[k])

\* C6 amended: the same, as long as no SyncPackageInstallationInfo call was
\* given an installed set that maps a name to the empty version.
C6_InstalledIffVersion ==
    ~emptyVersionSynced => \A k \in 1..Len(hostDB) : RowInvariant(hostDB[k])

\* C6 witness: a reconcile with non-empty versions only has succeeded and
\* turned an uninstalled row into an installed one and an installed row
\* into an uninstalled one.
C6_Witness ==
    /\ ~emptyVersionSynced
    /\ \E p \in Procs :
          /\ AtExit(p, "sync") /\ loc[p].err = "none"
          /\ \E j, k \in 1..Len(hostDB) :
                /\ loc[p].prior[j].installed = 0 /\ hostDB[j].installed = 1
                /\ loc[p].prior[k].installed = 1 /\ hostDB[k].installed = 0

(***************************************************************************)
(* Properties of the query engine (checked under SpecQuery)                *)
(***************************************************************************)

Called == qres.op # "none"

IsHost == qres.op \in {"QueryHostImagePackages", "CountHostImagePackages"}

IsQuery == qres.op \in {"QueryHostImagePackages", "QueryPackages"}

FilterAllowList ==
    IF IsHost THEN aptAllowedFilterFields ELSE distroAllowedFilterFields

SortAllowList == IF IsHost THEN aptAllowedSortFields ELSE distroAllowedSortFields

BoolFields == IF IsHost THEN {"installed"} ELSE {"installed", "exporting"}

\* The recorded call again, on the same tables, with other filters.
Rerun(filters, ord) ==
    CASE qres.op = "QueryHostImagePackages" ->
            QueryHostImagePackages(hostDB, filters, ord, qres.sortField,
                                   qres.sortOrder, qres.limit, qres.offset)
      [] qres.op = "CountHostImagePackages" ->
            CountHostImagePackages(hostDB, filters, ord)
      [] qres.op = "QueryPackages" ->
            QueryPackages(distroDB, qres.container, filters, ord, qres.sortField,
                          qres.sortOrder, qres.limit, qres.offset)
      [] qres.op = "CountTotalPackages" ->
            CountTotalPackages(distroDB, qres.container, filters, ord)

Restrict(m, D) == [x \in D |-> m[x]]

Without(ord, f) == SelectSeq(ord, LAMBDA x : x # f)

\* C7: a filter field outside the filter allow-list, or a non-empty sort
\* field outside the sort allow-list, makes the call fail with an
\* invalid-field error naming a rejected field, and no statement is run,
\* whatever other filters there are and in whatever order the map is walked.
C7_InvalidFieldRejected ==
    Called =>
        LET badFilters == DOMAIN qres.filters \ FilterAllowList
            badSort    == /\ IsQuery
                          /\ qres.sortField # ""
                          /\ qres.sortField \notin SortAllowList
        IN  (badFilters # {} \/ badSort) =>
                /\ qres.out.err \in {"filter", "sort"}
                /\ ~qres.out.executed
                /\ qres.out.err = "filter" => qres.out.field \in badFilters
                /\ qres.out.err = "sort" => badSort /\ qres.out.field = qres.sortField

\* C7 witness: a query whose map was walked valid field first, invalid
\* field second, was rejected.
C7_Witness ==
    /\ Called /\ IsQuery
    /\ Len(qres.ord) = 2
    /\ qres.ord[1] \in FilterAllowList
    /\ qres.ord[2] \notin FilterAllowList
    /\ qres.out.err = "filter"

\* C8: on every allow-listed boolean field a value that does not parse as a
\* boolean is ignored: the query or count returns what the same call
\* without that filter returns.
C8_UnparseableBoolIgnored ==
    Called =>
        \A f \in DOMAIN qres.filters \cap BoolFields :
            ~ParseBool(qres.filters[f])[2] =>
                qres.out = Rerun(Restrict(qres.filters, DOMAIN qres.filters \ {f}),
                                 Without(qres.ord, f))

\* C8 witness: a query with an unparseable installed filter returned
\* installed and uninstalled rows.
C8_Witness ==
    /\ Called /\ IsQuery
    /\ "installed" \in DOMAIN qres.filters
    /\ ~ParseBool(qres.filters["installed"])[2]
    /\ qres.out.err = "none"
    /\ \E i, j \in 1..Len(qres.out.rows) :
          qres.out.rows[i].Installed /\ ~qres.out.rows[j].Installed

ListOf(pkg, field) == IF field = "depends" THEN pkg.Depends ELSE pkg.Provides

\* C9: a filter on depends or provides with value v returns exactly the
\* rows whose list has v as one of its elements.
C9_ListFilterMatchesElements ==
    (/\ Called /\ IsHost
     /\ DOMAIN qres.filters \in {{"depends"}, {"provides"}}
     /\ qres.sortField = "" /\ qres.limit <= 0) =>
        LET f       == CHOOSE x \in DOMAIN qres.filters : TRUE
            v       == qres.filters[f]
            members == SelectSeq(PackagesOf(hostDB),
                                 LAMBDA pkg : v \in Range(ListOf(pkg, f)))
        IN  /\ qres.out.err = "none"
            /\ qres.op = "QueryHostImagePackages" => qres.out.rows = members
            /\ qres.out.count = Len(members)

\* The filtered, ordered result of the recorded query: its statement
\* without LIMIT and OFFSET.
Unpaged ==
    LET w == IF IsHost
             THEN IF Cardinality(DOMAIN qres.filters) > 0
                  THEN hostFilterLoop(qres.filters, qres.ord, <<>>)
                  ELSE [err |-> "none", field |-> "", conds |-> <<>>]
             ELSE distroFilterLoop(qres.filters, qres.ord,
                                   containerCond(qres.container))
        q == [conds |-> w.conds, orderBy |-> qres.sortField,
              dir |-> upperOrder(qres.sortOrder), hasLimit |-> FALSE,
              limit |-> 0, hasOffset |-> FALSE, offset |-> 0]
    IN  IF IsHost THEN PackagesOf(ExecSelect(hostDB, q, hostColumns).rows)
        ELSE PackageInfosOf(ExecSelect(distroDB, q, distroColumns).rows)

\* C10: a query with limit <= 0 returns every row of the filtered, ordered
\* result, whatever the offset; with limit > 0 it returns the at most limit
\* rows that follow the first offset rows of it.
C10_Pagination ==
    (Called /\ IsQuery /\ qres.out.err = "none") =>
        /\ qres.limit <= 0 => qres.out.rows = Unpaged
        /\ qres.limit > 0 =>
              qres.out.rows = SubSeq(Unpaged, qres.offset + 1,
                                     Min(Len(Unpaged), qres.offset + qres.limit))
        /\ (qres.limit <= 0 /\ qres.filters = NoFilters /\ qres.container = <<>>) =>
              Len(qres.out.rows) = Len(IF IsHost THEN hostDB ELSE distroDB)

\* C10 witness: a query with limit <= 0 and a positive offset returned all
\* three rows of its table.
C10_Witness ==
    /\ Called /\ IsQuery
    /\ qres.limit <= 0 /\ qres.offset > 0
    /\ qres.out.err = "none"
    /\ Len(qres.out.rows) = 3

(***************************************************************************)
(* Properties of the existence checks (checked under SpecGate)             *)
(***************************************************************************)

\* C11: an existence check succeeds if and only if the scope holds at least
\* one row: an existing but empty host table, and a container without rows,
\* are reported as not existing, and validateDB asks for an update exactly
\* when the host table holds no row.
C11_ExistsIffRows ==
    /\ qres.op = "PackageDatabaseExist" => (qres.err = "none" <=> Len(hostDB) > 0)
    /\ qres.op = "ContainerDatabaseExist" =>
          (qres.err = "none" <=>
              \E i \in 1..Len(distroDB) : distroDB[i].container = qres.container)
    /\ qres.op = "validateDB" => (qres.update <=> qres.rowsBefore = 0)

(***************************************************************************)
(* Properties of Install and Remove (checked under SpecInstall)            *)
(***************************************************************************)

Finished == req.op # "none" /\ req.pc = "done"

\* The request has run its simulation.
Simulated ==
    /\ req.op # "none"
    /\ req.pc \notin {"start", "check"}
    /\ req.pc = "done" =>
          req.resp.message \notin {"root", "nopackages", "notfound", "alternatives"}

NotBenign(errs) == {i \in 1..Len(errs) : errs[i].code \notin BenignCodes}

FirstNotBenign(errs) ==
    errs[CHOOSE i \in NotBenign(errs) : \A j \in NotBenign(errs) : i <= j]

\* C12: a request gets past its simulation only when every error of the
\* simulation is benign (FindCriticalError returned nil); otherwise it ends
\* with the first error, in the order met, that is not benign; the same
\* holds for the errors of the real run.
C12_FindCriticalError ==
    /\ Simulated =>
          IF NotBenign(req.aptErrors) = {}
          THEN req.resp.message # "critical"
          ELSE /\ req.pc = "done" /\ req.resp.message = "critical"
               /\ req.resp.cause = FirstNotBenign(req.aptErrors)
    /\ (req.op # "none" /\ req.realExecuted) =>
          IF NotBenign(req.errList) = {}
          THEN req.resp.message # "execution"
          ELSE /\ req.pc = "done" /\ req.resp.message = "execution"
               /\ req.resp.cause = FirstNotBenign(req.errList)

\* C12 witness: a simulation reported two different critical errors and the
\* request ended with the first of them.
C12_Witness ==
    /\ Finished /\ req.resp.message = "critical"
    /\ Len(req.aptErrors) = 2
    /\ NotBenign(req.aptErrors) = {1, 2}
    /\ req.aptErrors[1] # req.aptErrors[2]
    /\ req.resp.cause = req.aptErrors[1]

Targeted(row) == row.container = qres.container /\ row.name = qres.name

\* C13: UpdatePackageField with a field other than installed and exporting
\* leaves the table as it was; with one of the two it leaves the rows of
\* other containers and names as they were and, in the rows of the given
\* container and name, writes that field only (the value asked for, when
\* the statement succeeds).
C13_UpdateFieldFrame ==
    qres.op = "UpdatePackageField" =>
        IF qres.fieldName \notin {"installed", "exporting"}
        THEN distroDB = qres.before
        ELSE /\ Len(distroDB) = Len(qres.before)
             /\ \A i \in 1..Len(distroDB) :
                   IF Targeted(qres.before[i])
                   THEN /\ \A col \in DOMAIN qres.before[i] \ {qres.fieldName} :
                              distroDB[i][col] = qres.before[i][col]
                        /\ qres.execOk =>
                              distroDB[i][qres.fieldName] = IF qres.value THEN 1 ELSE 0
                   ELSE distroDB[i] = qres.before[i]

\* C13 witness: an update changed the flag of a package in one container
\* while another container holds a package of the same name.
C13_Witness ==
    /\ qres.op = "UpdatePackageField"
    /\ distroDB # qres.before
    /\ \E i, j \in 1..Len(distroDB) :
          /\ Targeted(distroDB[i])
          /\ distroDB[j].name = qres.name /\ distroDB[j].container # qres.container

ZeroCounts ==
    /\ req.packageParse.NewInstalledCount = 0
    /\ req.packageParse.UpgradedCount = 0
    /\ req.packageParse.RemovedCount = 0

\* No collaborator of the drift check (LoadConfig, image build) failed.
DriftCheckRan == req.resp.message \notin {"loadconfig", "apply"}

\* C15: an Install with apply on an atomic system for pkg+, whose
\* simulation reports AlreadyNewest(pkg) and no change while pkg is not in
\* the install list, adds pkg to the install list, does not run the real
\* operation, and ends in success (configuration updated), not in an error.
C15_DriftCorrectionSucceeds ==
    (/\ Finished /\ Simulated /\ req.op = "Install" /\ req.apply /\ IsAtomic
     /\ Len(req.packages) = 1 /\ lastChar(req.packages[1]) = "+"
     /\ req.aptErrors = <<MatchedError(ErrPackageIsAlreadyNewest,
                                       cleaned(req.packages[1]))>>
     /\ ZeroCounts
     /\ cleaned(req.packages[1]) \notin req.config0.install
     /\ DriftCheckRan) =>
        /\ cleaned(req.packages[1]) \in hostConfig.install
        /\ ~req.realExecuted
        /\ ~req.resp.Error /\ req.resp.err = "nil"

\* C16: a request whose simulation has no critical error and implies no
\* change (all three counts zero), and whose drift check changed no entry
\* of the configuration, ends with the error "nothing to do" without the
\* dialog or the real operation - also when the simulation reported no
\* classified error at all.
C16_NothingToDoFails ==
    (/\ Simulated /\ NotBenign(req.aptErrors) = {} /\ ZeroCounts
     /\ hostConfig = req.config0
     /\ DriftCheckRan) =>
        /\ req.pc = "done"
        /\ req.resp.Error /\ req.resp.message = "nothingtodo"
        /\ ~req.dialogShown /\ ~req.realExecuted

IsPackage(n) == \E i \in 1..Len(hostDB) : hostDB[i].name = n

\* The lengths k for which n is the package n[1..k] followed by markers only.
MarkedSplits(n) ==
    {k \in 0..(Len(n) - 1) :
        /\ IsPackage(SubSeq(n, 1, k))
        /\ \A j \in (k + 1)..Len(n) : n[j] \in Markers}

\* n is not a package itself and is a package followed by markers.
IsMarked(n) == ~IsPackage(n) /\ MarkedSplits(n) # {}

StrippedName(n) ==
    SubSeq(n, 1, CHOOSE k \in MarkedSplits(n) : \A m \in MarkedSplits(n) : m <= k)

\* The names applyChange was given by the request.
AppliedNames == IF req.op = "Install" THEN req.packageNames ELSE req.packages

InstallIntents ==
    {StrippedName(AppliedNames[i]) :
        i \in {j \in 1..Len(AppliedNames) :
                 IsMarked(AppliedNames[j]) /\ lastChar(AppliedNames[j]) = "+"}}
    \cup {AppliedNames[i] :
            i \in {j \in 1..Len(AppliedNames) :
                     /\ req.op = "Install" /\ AppliedNames[j] # <<>>
                     /\ lastChar(AppliedNames[j]) \notin Markers}}

RemoveIntents ==
    {StrippedName(AppliedNames[i]) :
        i \in {j \in 1..Len(AppliedNames) :
                 IsMarked(AppliedNames[j]) /\ lastChar(AppliedNames[j]) = "-"}}
    \cup {AppliedNames[i] :
            i \in {j \in 1..Len(AppliedNames) :
                     /\ req.op = "Remove" /\ AppliedNames[j] # <<>>
                     /\ lastChar(AppliedNames[j]) \notin Markers}}

\* Every name of the request is a marked name or a name without marker.
PlainOrMarked ==
    \A j \in 1..Len(AppliedNames) :
        \/ AppliedNames[j] = <<>>
        \/ IsMarked(AppliedNames[j])
        \/ lastChar(AppliedNames[j]) \notin Markers

\* C18: when applyChange has updated the configuration, a name that is a
\* package followed by a marker is recorded under the stripped name, for
\* install when the marker is + and for removal when it is -, in an Install
\* as in a Remove; a name without marker is recorded with the intent of the
\* request.  After a request that was executed, the lists hold nothing else
\* new.  The same holds of one round of applyChange on any requested name.
C18_MarkerOverridesIntent ==
    /\ (Finished /\ req.built) =>
          /\ InstallIntents \subseteq hostConfig.install
          /\ RemoveIntents \subseteq hostConfig.remove
          /\ (req.reconciled /\ PlainOrMarked) =>
                /\ hostConfig.install = req.config0.install \cup InstallIntents
                /\ hostConfig.remove = req.config0.remove \cup RemoveIntents
    /\ \A n \in RequestNames, isInstall \in BOOLEAN :
          LET cfg == applyEntry(hostDB, NoConfig, n, isInstall)
          IN  /\ (IsMarked(n) /\ lastChar(n) = "+") =>
                    cfg = [install |-> {StrippedName(n)}, remove |-> {}]
              /\ (IsMarked(n) /\ lastChar(n) = "-") =>
                    cfg = [install |-> {}, remove |-> {StrippedName(n)}]
              /\ lastChar(n) \notin Markers =>
                    cfg = IF isInstall THEN [install |-> {n}, remove |-> {}]
                          ELSE [install |-> {}, remove |-> {n}]

\* C18 witness: an executed Install that named a- recorded a for removal and
\* not for installation.
C18_Witness ==
    /\ Finished /\ req.built /\ req.reconciled /\ req.op = "Install"
    /\ \E i \in 1..Len(req.packageNames) : req.packageNames[i] = <<"a", "-">>
    /\ <<"a">> \in hostConfig.remove /\ <<"a">> \notin hostConfig.install

\* The package a requested name stands for: the name itself when it is a
\* package name, else the package name it extends by trailing markers.
ResolvedName(n) == IF IsPackage(n) THEN n ELSE StrippedName(n)

\* A request whose names all are package names or package names followed by
\* trailing markers, and that got past the root and empty-list checks.
ResolvableRequest ==
    /\ req.op # "none"
    /\ req.resp.message \notin {"root", "nopackages"}
    /\ \A i \in 1..Len(req.packages) :
          IsPackage(req.packages[i]) \/ IsMarked(req.packages[i])

\* C19: an Install or Remove request whose names are package names, bare or
\* followed by one or more trailing markers, is resolved: it does not end
\* with a name not found, and each name is resolved to the package it
\* extends.
C19_ResolveAcceptsMarkedNames ==
    ResolvableRequest =>
        /\ req.resp.message \notin {"notfound", "alternatives"}
        /\ Len(req.packagesInfo) = Len(req.packages)
        /\ \A i \in 1..Len(req.packages) :
              req.packagesInfo[i].Name = ResolvedName(req.packages[i])

\* The names of the packages that list n in their provides field.
Providers(n) ==
    {hostDB[j].name : j \in {k \in 1..Len(hostDB) :
                                n \in Range(RowToPackage(hostDB[k]).Provides)}}

\* A Remove request, past the root and empty-list checks, whose first name
\* is not a package name but is provided by some package.
RemoveOfProvided ==
    /\ req.op = "Remove"
    /\ req.resp.message \notin {"root", "nopackages"}
    /\ ~IsPackage(req.packages[1])
    /\ Providers(req.packages[1]) # {}

\* C20: a Remove request for a name that no row matches exactly but that
\* some row provides ends in a failure whose response lists providers of
\* the name, with nothing run and neither the store nor the configuration
\* changed.
C20_RemoveOffersAlternatives ==
    RemoveOfProvided =>
        /\ req.pc = "done" /\ req.resp.Error
        /\ req.resp.packages # <<>>
        /\ Range(req.resp.packages) \subseteq Providers(req.packages[1])
        /\ ~req.realExecuted /\ ~req.built
        /\ hostConfig = req.config0
        /\ hostDB = RowsOf(InstallPkgs)

\* The positions of the requested names that Install's lookup does not find.
NotFoundAt == {i \in 1..Len(req.packages) :
                  lookupInstall(hostDB, req.packages[i]).err # "none"}

FirstNotFound ==
    req.packages[CHOOSE i \in NotFoundAt : \A j \in NotFoundAt : i <= j]

\* C21: an Install request one of whose names is not found ends before the
\* simulation with a failure: nothing is simulated, asked, run, resynced or
\* rebuilt and the configuration is as before, also for the names that were
\* found.  The response names providers of the first name not found, as many
\* as there are up to 5, and is the not-found error when there is none.
C21_ResolveAllOrNothing ==
    (req.op = "Install" /\ req.resp.message \notin {"root", "nopackages"}
       /\ NotFoundAt # {}) =>
        /\ req.pc = "done" /\ req.resp.Error
        /\ req.packagesInfo = <<>> /\ req.aptErrors = <<>>
        /\ ~req.dialogShown /\ ~req.realExecuted
        /\ ~req.reconciled /\ ~req.built
        /\ hostConfig = req.config0
        /\ hostDB = RowsOf(InstallPkgs)
        /\ IF Providers(FirstNotFound) = {}
           THEN req.resp.message = "notfound" /\ req.resp.packages = <<>>
           ELSE /\ req.resp.message = "alternatives"
                /\ Len(req.resp.packages) =
                      Min(altLimit, Cardinality(Providers(FirstNotFound)))
                /\ Range(req.resp.packages) \subseteq Providers(FirstNotFound)

\* C21 witness: Install of a- and v, where a- is found and v is only
\* provided, ended with the alternative a and nothing run.
C21_Witness ==
    /\ Finished /\ req.op = "Install"
    /\ req.packages = << <<"a", "-">>, <<"v">> >>
    /\ req.resp.packages = << <<"a">> >>
    /\ ~req.realExecuted

(***************************************************************************)
(* Properties of the save and read-back (checked under SpecStore)          *)
(***************************************************************************)

\* The package was saved and read back by its name.
ReadBack ==
    /\ qres.op = "GetPackageByName"
    /\ qres.name = qres.saved.Name

\* C22 as stated: the depends and provides lists read back are the lists
\* saved, whatever the lists.
C22_RoundTrip_Original ==
    ReadBack =>
        /\ qres.got.err = "none"
        /\ qres.got.pkg.Depends = qres.saved.Depends
        /\ qres.got.pkg.Provides = qres.saved.Provides

\* The list whose only name is the empty string.
OneEmptyName == << <<>> >>

\* C22: a depends or provides list read back is the list saved, in order,
\* unless the list saved holds the empty string and nothing else: that
\* list is stored as the empty string and read back as the empty list.
C22_RoundTrip ==
    ReadBack =>
        /\ qres.got.err = "none"
        /\ qres.got.pkg.Depends =
              IF qres.saved.Depends = OneEmptyName THEN <<>> ELSE qres.saved.Depends
        /\ qres.got.pkg.Provides =
              IF qres.saved.Provides = OneEmptyName THEN <<>> ELSE qres.saved.Provides

\* C22 witness: the empty depends list and a provides list of three names
\* with an empty one in the middle were read back as saved.
C22_Witness ==
    /\ ReadBack
    /\ qres.saved.Depends = <<>>
    /\ qres.saved.Provides = << <<"a">>, <<>>, <<"b">> >>
    /\ qres.got.pkg.Depends = <<>>
    /\ qres.got.pkg.Provides = << <<"a">>, <<>>, <<"b">> >>

(***************************************************************************)
(* Properties of the lock of the host store (checked under FairSpec)       *)
(***************************************************************************)

\* Process p is between the Lock and the Unlock of SavePackagesToDB or
\* SyncPackageInstallationInfo.
InCall(p) == pc[p] # "idle"

ExclusiveCalls ==
    /\ \A p, q \in Procs : (InCall(p) /\ InCall(q)) => p = q
    /\ \A p \in Procs : InCall(p) <=> syncDBMutex = p
    /\ syncDBMutex \in Procs \cup {"free"}

\* C23: at no time are two calls of SavePackagesToDB and
\* SyncPackageInstallationInfo between Lock and Unlock; the lock is held
\* exactly by the call in progress, and a lock that is held is free again
\* later, whether the call that holds it ends with an error or not.
C23_MutualExclusion ==
    /\ []ExclusiveCalls
    /\ \A p \in Procs : (syncDBMutex = p) ~> (syncDBMutex = "free")

\* C23 witness: a SyncPackageInstallationInfo that failed stands at its
\* return with the lock still held, after a SavePackagesToDB has filled the
\* table, and the other process is outside any call.
C23_Witness ==
    /\ pc["p1"] = "exit" /\ loc["p1"].op = "sync" /\ loc["p1"].err # "none"
    /\ syncDBMutex = "p1"
    /\ hostDB # <<>>
    /\ ~InCall("p2")

\* The request went past its simulation to the confirmation dialog.
PastSimulation == req.op # "none" /\ (req.pc \in {"dialog", "execute", "resync"} \/ req.dialogShown)

\* C24: the real run happens only after a simulation whose errors are all
\* benign and a confirmed dialog; the resync only after a real run whose
\* errors are all benign; and on that path the configuration is changed or
\* the image rebuilt only after the resync, with apply asked for on an
\* atomic system.  Without apply no request changes the configuration.
C24_SuccessPathOrder ==
    /\ (req.op # "none" /\ req.realExecuted) =>
          /\ Simulated
          /\ FindCriticalError(req.aptErrors) = NilError
          /\ req.dialogShown /\ req.dialogStatus = "yes"
    /\ (req.op # "none" /\ req.reconciled) =>
          /\ req.realExecuted
          /\ FindCriticalError(req.errList) = NilError
    /\ (PastSimulation /\ (hostConfig # req.config0 \/ req.built)) =>
          /\ req.reconciled
          /\ req.apply /\ IsAtomic
    /\ (req.op # "none" /\ ~req.apply) =>
          /\ hostConfig = req.config0
          /\ ~req.built

\* C24 witness: an Install with apply on an atomic system went through
\* simulation, confirmation, real run and resync, and then recorded b and
\* rebuilt the image.
C24_Witness ==
    /\ Finished /\ req.op = "Install" /\ req.apply /\ IsAtomic
    /\ req.dialogStatus = "yes" /\ req.realExecuted /\ req.reconciled
    /\ req.built
    /\ <<"b">> \in hostConfig.install /\ <<"b">> \notin req.config0.install

\* The real run of the request returned an error that is not benign.
RealRunCritical ==
    /\ req.op # "none" /\ req.realExecuted
    /\ NotBenign(req.errList) # {}

\* C25: a request whose real run returned a critical error is over, with
\* the execution failure as its response: no resync was run, the store and
\* the configuration are as before and no image was built.
C25_ExecutionErrorStops ==
    RealRunCritical =>
        /\ req.pc = "done"
        /\ req.resp.Error /\ req.resp.message = "execution"
        /\ req.resp.err = "critical"
        /\ ~req.reconciled /\ ~req.built
        /\ hostConfig = req.config0
        /\ hostDB = RowsOf(InstallPkgs)

\* C25 witness: a Remove with apply on an atomic system, confirmed, whose
\* real run returned a benign error and then a critical one.
C25_Witness ==
    /\ Finished /\ req.op = "Remove" /\ req.apply /\ IsAtomic
    /\ req.dialogStatus = "yes" /\ req.realExecuted
    /\ Len(req.errList) = 2
    /\ req.errList[2].code = ErrCritical
    /\ req.resp.message = "execution"

(***************************************************************************)
(* Properties of the container actions (checked under SpecDistroActions)       *)
(***************************************************************************)

\* The rows of the package the call was about.
CallRows ==
    {i \in 1..Len(distroDB) : /\ distroDB[i].container = qres.container
                              /\ distroDB[i].name = qres.name}

\* C26: a container Install or Remove that answers without error reports
\* the installed and exporting flags the table holds for the package, so
\* that an UPDATE that failed does not go unnoticed.
C26_UpdateFailureSurfaces ==
    (qres.op \in {"Install", "Remove"} /\ ~qres.resp.Error) =>
        \A i \in CallRows :
            /\ (distroDB[i].installed # 0) = qres.resp.Installed
            /\ (distroDB[i].exporting # 0) = qres.resp.Exporting

(***************************************************************************)
(* Properties of the container store's writers (checked under              *)
(* SpecDistroSave)                                                         *)
(***************************************************************************)

\* The rows of container d, in table order.
RECURSIVE ContainerRows(_, _)
ContainerRows(table, d) ==
    IF table = <<>> THEN <<>>
    ELSE IF Head(table).container = d
         THEN <<Head(table)>> \o ContainerRows(Tail(table), d)
         ELSE ContainerRows(Tail(table), d)

\* The step is one of the call of process p.
StepOf(p) == pc'[p] # pc[p] \/ loc'[p] # loc[p]

\* A step changes the rows of a container only when it belongs to a call
\* made for that container, and a step of a save for the empty container
\* name changes no row and leaves that call failed.
IsolatedStep ==
    /\ \A d \in SaveContainers \cup GateContainers :
          ContainerRows(distroDB', d) # ContainerRows(distroDB, d) =>
              \E p \in Procs : StepOf(p) /\ loc'[p].container = d
    /\ \A p \in Procs :
          (StepOf(p) /\ loc'[p].op = "save" /\ loc'[p].container = <<>>) =>
              /\ distroDB' = distroDB
              /\ pc'[p] = "return" /\ loc'[p].err # "none"

\* C27: SavePackagesToDB(c, ...) and DeletePackagesFromContainer(c), failing
\* or not, leave the rows of every other container as they were, and
\* SavePackagesToDB with an empty container name fails with the table
\* unchanged.
C27_ScopeIsolation == [][IsolatedStep]_vars

\* C27 witness: a save of two packages for c is over without error while a
\* save for the empty name has failed; the rows of c are the saved ones and
\* the row of x is still there.
C27_Witness ==
    /\ pc["p1"] = "return" /\ loc["p1"].op = "save" /\ loc["p1"].err = "none"
    /\ loc["p1"].container = <<"c">> /\ Len(loc["p1"].packages) = 2
    /\ pc["p2"] = "return" /\ loc["p2"].op = "save" /\ loc["p2"].container = <<>>
    /\ ContainerRows(distroDB, <<"c">>) = DistroRowsOf(<<"c">>, loc["p1"].packages)
    /\ ContainerRows(distroDB, <<"x">>) = <<QDistroRows[3]>>

\* Both processes have saved the same container without error.
BothSaved ==
    /\ \A p \in Procs : pc[p] = "return" /\ loc[p].op = "save" /\ loc[p].err = "none"
    /\ loc["p1"].container = loc["p2"].container

\* C30: after two saves of the same container that both returned without
\* error, the rows of the container are the rows of one of the two
\* package lists.
C30_ConcurrentSavesOneSnapshot ==
    BothSaved =>
        \E p \in Procs :
            ContainerRows(distroDB, loc[p].container) =
                DistroRowsOf(loc[p].container, loc[p].packages)

\* The requested names that are package names as they stand.
ExactNames == {req.packages[i] : i \in {j \in 1..Len(req.packages) :
                                            IsPackage(req.packages[j])}}

\* C28: a requested name that is a package name as it stands, whatever its
\* last character, is recorded by applyChange under that name according to
\* the request: after a Remove request that went through its real run the
\* name is not new in the install list and, when the image was rebuilt, is
\* in the remove list; after an Install request it is not new in the remove
\* list and, when the image was rebuilt, is in the install list.
C28_ExactNameKeepsIntent ==
    PastSimulation =>
        \A n \in ExactNames :
            /\ req.op = "Remove" =>
                  /\ n \in hostConfig.install => n \in req.config0.install
                  /\ (Finished /\ req.built) => n \in hostConfig.remove
            /\ req.op = "Install" =>
                  /\ n \in hostConfig.remove => n \in req.config0.remove
                  /\ (Finished /\ req.built) => n \in hostConfig.install

(***************************************************************************)
(* Repeating SyncPackageInstallationInfo (checked under Spec)              *)
(***************************************************************************)

\* C29: a SyncPackageInstallationInfo that is about to create its staging
\* table runs on a connection on which no earlier call has left that table,
\* so that the statement, and with it the call, can succeed whatever calls
\* came before.
C29_SyncRepeatable ==
    \A p \in Procs :
        pc[p] = "syncCreateTmp" => ~tmpInstalled[loc[p].conn]

====
